------------------------------- MODULE TopUp -------------------------------
(***************************************************************************)
(* Orders paid through a gateway: the top-ups of model/topup.go and the    *)
(* subscription orders of model/subscription.go, completed by the webhooks *)
(* of controller/topup*.go and controller/subscription_payment_*.go, or by *)
(* an administrator.                                                       *)
(*                                                                         *)
(* A gateway confirms a payment as often as it likes and until it gets a   *)
(* good answer, on any node, concurrently with itself and with the         *)
(* administrator.  The row is read in one step and written in another: the *)
(* query option "FOR UPDATE" of the transactions is one of GORM v1 and     *)
(* adds nothing to the query in the v2 that go.mod names, so all that      *)
(* keeps two handlers apart is LockOrder, a mutex per order and process,   *)
(* which a handler of the Waffo gateway does without when it closes an     *)
(* order.                                                                  *)
(***************************************************************************)
EXTENDS Integers, FiniteSets

CONSTANTS
  Orders,         \* trade numbers
  Nodes,          \* processes of the server
  Handlers,       \* bound: requests handled at the same time
  Node,           \* [Handlers -> Nodes]
  Mutexes,        \* refCountedMutex objects, at least one per handler
  None,
  Amount, Money,  \* top_ups.amount and top_ups.money of every order
  QuotaPerUnit,
  Strangers,      \* the gateways that confirm orders of other gateways
  AdminProviders, \* the gateways whose orders administrators complete
  MaxPurchasePerUser, \* of the plan that is ordered, 0 for no limit
  MaxFaults,      \* bound: how many accesses to the database fail
  MaxCrashes      \* bound: how many times a node dies and restarts

Providers == {"epay", "stripe", "creem", "waffo", "pancake"}

ASSUME TopUpAssumption ==
  /\ Orders # {}
  /\ IsFiniteSet(Handlers)
  /\ Node \in [Handlers -> Nodes]
  /\ None \notin Mutexes
  /\ Amount \in Nat \ {0}
  /\ Money \in Nat \ {0}
  /\ QuotaPerUnit \in Nat \ {0}
  /\ Strangers \subseteq Providers
  /\ AdminProviders \subseteq Providers
  /\ MaxPurchasePerUser \in Nat
  /\ MaxFaults \in Nat
  /\ MaxCrashes \in Nat

Statuses == {"none", "pending", "success", "failed", "expired"}
Outcomes == {"open", "void", "paid", "failed", "expired"}
Requests ==
  [order : Orders, via : Providers \cup {"admin"},
   event : {"paid", "failed", "expired", "complete"}]

\* What a handler that has nothing to do is left with.
NoRequest ==
  [order |-> CHOOSE o \in Orders : TRUE, via |-> "admin",
   event |-> "complete"]

VARIABLES
  provider,   \* payment_provider of the order's row
  sub,        \* the orders in subscription_orders, the others are top-ups
  status,     \* status of the row
  granted,    \* what the user got for the order
  purchased,  \* rows of user_subscriptions of the user and the plan (the
              \* subscription orders are one user's, for one plan)
  outcome,    \* what became of the payment at the gateway (external),
              \* "void" if there was no checkout to pay in
  acked,      \* outcomes the gateway has a good answer for (external)
  ordered,    \* orders an administrator asked to complete
  orderLocks, \* [Nodes -> [Orders -> Mutexes or None]]
  refCount,   \* [Nodes -> [Mutexes -> Nat]]
  held,       \* [Nodes -> mutexes that are locked]
  pc,         \* [Handlers -> where the handler is]
  req,        \* [Handlers -> what it was asked]
  mine,       \* [Handlers -> the mutex of its LockOrder]
  good,       \* handlers whose answer is a good one
  faults, crashes,
  glossed     \* ghost: orders whose gateway is answered well though the row
              \* could not be read

rows == <<provider, sub, status, granted, purchased>>
gateway == <<outcome, acked, ordered>>
locks == <<orderLocks, refCount, held>>
handler == <<pc, req, mine, good>>
failures == <<faults, crashes, glossed>>
vars == <<rows, gateway, locks, handler, failures>>

Init ==
  /\ provider = [o \in Orders |-> "none"]
  /\ sub = {}
  /\ status = [o \in Orders |-> "none"]
  /\ granted = [o \in Orders |-> 0]
  /\ purchased = 0
  /\ outcome = [o \in Orders |-> "open"]
  /\ acked = {}
  /\ ordered = {}
  /\ orderLocks = [n \in Nodes |-> [o \in Orders |-> None]]
  /\ refCount = [n \in Nodes |-> [m \in Mutexes |-> 0]]
  /\ held = [n \in Nodes |-> {}]
  /\ pc = [h \in Handlers |-> "idle"]
  /\ req = [h \in Handlers |-> NoRequest]
  /\ mine = [h \in Handlers |-> None]
  /\ good = {}
  /\ faults = 0
  /\ crashes = 0
  /\ glossed = {}
-----------------------------------------------------------------------------
(***************************************************************************)
(* The gateway and the administrator.                                      *)
(***************************************************************************)

\* RequestEpay, RequestStripePay, ... and their subscription counterparts:
\* the row is inserted as pending.  Waffo sells no subscriptions, and what is
\* paid from the balance is never pending.
CreateOrder(o, p, isSub) ==
  /\ status[o] = "none"
  /\ isSub => p # "waffo"
  /\ provider' = [provider EXCEPT ![o] = p]
  /\ sub' = IF isSub THEN sub \cup {o} ELSE sub
  /\ status' = [status EXCEPT ![o] = "pending"]
  /\ UNCHANGED <<granted, purchased, gateway, locks, handler, failures>>

\* RequestWaffoPay and RequestWaffoPancakePay insert the row before they ask
\* the gateway for a checkout.  If they get none they save it as failed,
\* whatever became of it meanwhile; SubscriptionRequestEpay expires it if it
\* is pending.  There is nothing to pay.
CheckoutFails(o) ==
  /\ outcome[o] = "open"
  /\ \/ /\ provider[o] \in {"waffo", "pancake"}
        /\ status' = [status EXCEPT ![o] = "failed"]
     \/ /\ provider[o] = "epay" /\ o \in sub /\ status[o] = "pending"
        /\ status' = [status EXCEPT ![o] = "expired"]
  /\ outcome' = [outcome EXCEPT ![o] = "void"]
  /\ UNCHANGED <<provider, sub, granted, purchased, acked, ordered, locks,
                 handler, failures>>

\* The payment comes to its end.  Only Stripe and Waffo report a failure,
\* only Stripe an expired checkout.
PaymentEnds(o, end) ==
  /\ status[o] # "none"
  /\ outcome[o] = "open"
  /\ end = "failed" => provider[o] \in {"stripe", "waffo"}
  /\ end = "expired" => provider[o] = "stripe"
  /\ outcome' = [outcome EXCEPT ![o] = end]
  /\ UNCHANGED <<rows, acked, ordered, locks, handler, failures>>

\* Subscriptions to the plan that the user buys with other orders or from the
\* balance, or that an administrator binds or deletes; they matter once there
\* is an order for the plan.
PurchasesChange ==
  /\ sub # {}
  /\ \E n \in 0..MaxPurchasePerUser :
       n # purchased /\ purchased' = n
  /\ UNCHANGED <<provider, sub, status, granted, gateway, locks, handler,
                 failures>>

\* What the gateway of the order reports: how the payment ended, and Waffo at
\* any time a status of the payment that is not a success.
Reports(o) ==
  ({outcome[o]} \ {"open", "void"})
    \cup (IF provider[o] = "waffo" THEN {"failed"} ELSE {})

Arrive(h, r) ==
  /\ pc[h] = "idle"
  /\ pc' = [pc EXCEPT ![h] = "arrived"]
  /\ req' = [req EXCEPT ![h] = r]
  /\ UNCHANGED <<rows, outcome, acked, locks, mine, good, failures>>

\* A webhook of the order's gateway.
Deliver(h, o, event) ==
  /\ event \in Reports(o)
  /\ Arrive(h, [order |-> o, via |-> provider[o], event |-> event])
  /\ UNCHANGED ordered

\* A gateway confirms a trade number that is an order of another one.
DeliverForeign(h, o, p) ==
  /\ status[o] # "none"
  /\ p # provider[o]
  /\ Arrive(h, [order |-> o, via |-> p, event |-> "paid"])
  /\ UNCHANGED ordered

\* AdminCompleteTopUp.
AdminComplete(h, o) ==
  /\ status[o] # "none"
  /\ provider[o] \in AdminProviders
  /\ Arrive(h, [order |-> o, via |-> "admin", event |-> "complete"])
  /\ ordered' = ordered \cup {o}
-----------------------------------------------------------------------------
(***************************************************************************)
(* LockOrder and UnlockOrder.  Under createLock the mutex of the order is  *)
(* found or made and counted; it is locked, unlocked and uncounted without *)
(* it.  An object nobody counts is garbage, and its name is used again.    *)
(***************************************************************************)

\* handleWaffoPayment marks an order as failed without the lock.
LocksWebhooks(r) == r.via # "admin" /\ ~(r.via = "waffo" /\ r.event = "failed")
Locks(r) == ~(r.via = "waffo" /\ r.event = "failed")

\* The order under which handler h finds its mutex.
Cell(h) == req[h].order

EnterLockOrder(h) ==
  LET n == Node[h]
      o == Cell(h)
  IN /\ pc[h] = "arrived"
     /\ Locks(req[h])
     /\ \E m \in Mutexes :
          /\ IF orderLocks[n][o] # None
             THEN m = orderLocks[n][o]
             ELSE refCount[n][m] = 0
          /\ orderLocks' = [orderLocks EXCEPT ![n][o] = m]
          /\ refCount' = [refCount EXCEPT ![n][m] = @ + 1]
          /\ mine' = [mine EXCEPT ![h] = m]
     /\ pc' = [pc EXCEPT ![h] = "waiting"]
     /\ UNCHANGED <<rows, gateway, held, req, good, failures>>

Acquire(h) ==
  /\ pc[h] = "waiting"
  /\ mine[h] \notin held[Node[h]]
  /\ held' = [held EXCEPT ![Node[h]] = @ \cup {mine[h]}]
  /\ pc' = [pc EXCEPT ![h] = "inside"]
  /\ UNCHANGED <<rows, gateway, orderLocks, refCount, req, mine, good,
                 failures>>

\* UnlockOrder finds the mutex in the map again, not in a variable.
Unlock(h) ==
  LET n == Node[h]
      m == orderLocks[n][Cell(h)]
  IN /\ pc[h] = "leaving"
     /\ Locks(req[h])
     /\ held' = [held EXCEPT ![n] = @ \ {m}]
     /\ mine' = [mine EXCEPT ![h] = m]
     /\ pc' = [pc EXCEPT ![h] = IF m = None THEN "answer" ELSE "uncount"]
     /\ UNCHANGED <<rows, gateway, orderLocks, refCount, req, good, failures>>

\* The mutex leaves the map with its last user.
ForgottenAtOnce(count) == TRUE
Forgotten(count) == count = 0

LeftTwice(count) == count - 2
Left(count) == count - 1

Uncount(h) ==
  LET n == Node[h]
      o == Cell(h)
      left == Left(refCount[n][mine[h]])
  IN /\ pc[h] = "uncount"
     /\ refCount' = [refCount EXCEPT ![n][mine[h]] = left]
     /\ orderLocks' = IF Forgotten(left)
                      THEN [orderLocks EXCEPT ![n][o] = None]
                      ELSE orderLocks
     /\ mine' = [mine EXCEPT ![h] = None]
     /\ pc' = [pc EXCEPT ![h] = "answer"]
     /\ UNCHANGED <<rows, gateway, held, req, good, failures>>
-----------------------------------------------------------------------------
(***************************************************************************)
(* The handlers.                                                           *)
(***************************************************************************)

\* Every function that completes or closes an order of a gateway compares
\* the row's payment_provider with its own; ManualCompleteTopUp knows only
\* top-ups and asks for no gateway.
OwnsAny(r) == r.via = "admin" => r.order \notin sub
Owns(r) ==
  IF r.via = "admin" THEN r.order \notin sub ELSE r.via = provider[r.order]

\* CreateUserSubscriptionFromPlanTx refuses to go over the plan's limit.
LimitReached(o) ==
  o \in sub /\ MaxPurchasePerUser > 0 /\ purchased >= MaxPurchasePerUser

\* Recharge, RechargeCreem, RechargeWaffo, RechargeWaffoPancake, EpayNotify,
\* CompleteSubscriptionOrder, ManualCompleteTopUp: what a pending row is
\* completed for.  A plan is never deleted, so a completion finds it; a
\* disabled one is completed too.
Grants(r) ==
  /\ r.event \in {"paid", "complete"}
  /\ Owns(r)
  /\ status[r.order] = "pending"
  /\ ~LimitReached(r.order)

\* UpdatePendingTopUpStatus, ExpireSubscriptionOrder and
\* sessionAsyncPaymentFailed, which looks for a top-up only.
Closes(r) ==
  /\ r.event \in {"failed", "expired"}
  /\ r.event = "failed" => r.order \notin sub
  /\ Owns(r)
  /\ status[r.order] = "pending"

\* ManualCompleteTopUp takes every order that is not Stripe's for one whose
\* Amount counts units.
ManualQuota(p) == (IF p = "stripe" THEN Money ELSE Amount) * QuotaPerUnit

\* The quota a handler gives: Money of a Stripe order, Amount of a Creem
\* order and Amount of any other are in different units.  A subscription is
\* worth its plan.
Quota(r) ==
  IF r.order \in sub \/ r.via = "creem" THEN Amount
  ELSE IF r.via = "admin" THEN ManualQuota(provider[r.order])
  ELSE IF r.via = "stripe" THEN Money * QuotaPerUnit
  ELSE Amount * QuotaPerUnit

\* EpayNotify marks a top-up and credits it outside of any transaction.
TwoWritesAlways(r) == r.order \notin sub
TwoWrites(r) == r.via = "epay" /\ r.order \notin sub

\* Stripe's webhook, EpayNotify for a top-up and the failure of a Waffo
\* payment are answered well whatever happens.
AnswersWellAlways(r) == TRUE
AnswersWell(r) == r.via \in {"stripe", "admin"} \/ TwoWrites(r) \/ ~Locks(r)

\* The answer to a request that there is nothing to do for.
GoodAsItIs(r) ==
  AnswersWell(r) \/ (Owns(r) /\ status[r.order] = "success")

AtRow(h) ==
  \/ pc[h] = "arrived" /\ ~Locks(req[h])
  \/ pc[h] = "inside" /\ ~(req[h].via = "creem" /\ Cell(h) \notin sub)
  \/ pc[h] = "checked"

\* handleCheckoutCompleted looks at a top-up before it calls RechargeCreem.
CreemCheck(h) ==
  /\ pc[h] = "inside"
  /\ req[h].via = "creem"
  /\ Cell(h) \notin sub
  /\ IF status[Cell(h)] = "pending"
     THEN pc' = [pc EXCEPT ![h] = "checked"] /\ UNCHANGED good
     ELSE pc' = [pc EXCEPT ![h] = "leaving"] /\ good' = good \cup {h}
  /\ UNCHANGED <<rows, gateway, locks, req, mine, failures>>

\* The row is read and judged.
ReadRow(h) ==
  LET r == req[h]
      stop == ~Grants(r) /\ ~Closes(r)
  IN /\ AtRow(h)
     /\ pc' = [pc EXCEPT ![h] = IF Grants(r) THEN "granting"
                                ELSE IF Closes(r) THEN "closing"
                                ELSE "leaving"]
     /\ good' = IF stop /\ GoodAsItIs(r) THEN good \cup {h} ELSE good
     /\ UNCHANGED <<rows, gateway, locks, req, mine, failures>>

\* The transaction commits: the row and the user's quota, or the
\* subscription, change together.
CommitGrant(h) ==
  LET r == req[h]
      o == Cell(h)
  IN /\ pc[h] = "granting"
     /\ ~TwoWrites(r)
     /\ status' = [status EXCEPT ![o] = "success"]
     /\ granted' = [granted EXCEPT ![o] = @ + Quota(r)]
     /\ purchased' = IF o \in sub THEN purchased + 1 ELSE purchased
     /\ good' = good \cup {h}
     /\ pc' = [pc EXCEPT ![h] = "leaving"]
     /\ UNCHANGED <<provider, sub, gateway, locks, req, mine, failures>>

\* EpayNotify: Update, then IncreaseUserQuota.
EpayMark(h) ==
  /\ pc[h] = "granting"
  /\ TwoWrites(req[h])
  /\ status' = [status EXCEPT ![Cell(h)] = "success"]
  /\ pc' = [pc EXCEPT ![h] = "crediting"]
  /\ UNCHANGED <<provider, sub, granted, purchased, gateway, locks, req, mine,
                 good, failures>>

EpayCredit(h) ==
  /\ pc[h] = "crediting"
  /\ granted' = [granted EXCEPT ![Cell(h)] = @ + Quota(req[h])]
  /\ good' = good \cup {h}
  /\ pc' = [pc EXCEPT ![h] = "leaving"]
  /\ UNCHANGED <<provider, sub, status, purchased, gateway, locks, req, mine,
                 failures>>

CloseOrder(h) ==
  /\ pc[h] = "closing"
  /\ status' = [status EXCEPT ![Cell(h)] = req[h].event]
  /\ good' = good \cup {h}
  /\ pc' = [pc EXCEPT ![h] = "leaving"]
  /\ UNCHANGED <<provider, sub, granted, purchased, gateway, locks, req, mine,
                 failures>>

\* A write fails, or the whole transaction with it.
WriteFails(h) ==
  /\ pc[h] \in {"granting", "crediting", "closing"}
  /\ faults < MaxFaults
  /\ faults' = faults + 1
  /\ good' = IF AnswersWell(req[h]) THEN good \cup {h} ELSE good
  /\ pc' = [pc EXCEPT ![h] = "leaving"]
  /\ UNCHANGED <<rows, gateway, locks, req, mine, crashes, glossed>>

\* What a handler answers that could not read the row, and where it goes on.
\* WaffoPancakeWebhook looks for the row before it locks and takes an error
\* for an order that does not exist; so does handleCheckoutCompleted with a
\* subscription order, but it answers well only if Creem does not call the
\* order "onetime" (or if the error came later).
Unread(h) ==
  LET r == req[h]
  IN IF pc[h] = "arrived" /\ r.via = "pancake"
     THEN {[to |-> "answer", well |-> TRUE]}
     ELSE [to : {"leaving"},
           well : {w \in BOOLEAN : \/ w = AnswersWell(r)
                                   \/ r.via = "creem" /\ r.order \in sub}]

\* A read fails.
ReadFails(h) ==
  /\ \/ pc[h] = "arrived" /\ (req[h].via = "pancake" \/ ~Locks(req[h]))
     \/ pc[h] \in {"inside", "checked"}
  /\ faults < MaxFaults
  /\ faults' = faults + 1
  /\ \E u \in Unread(h) :
       /\ pc' = [pc EXCEPT ![h] = u.to]
       /\ good' = IF u.well THEN good \cup {h} ELSE good
       /\ glossed' = IF u.well /\ req[h].via = provider[Cell(h)]
                     THEN glossed \cup {Cell(h)} ELSE glossed
  /\ UNCHANGED <<rows, gateway, locks, req, mine, crashes>>

\* The handler returns, and only then does its answer leave the node.
Answer(h) ==
  LET r == req[h]
  IN /\ pc[h] = "answer" \/ (pc[h] = "leaving" /\ ~Locks(r))
     /\ acked' = IF /\ h \in good
                    /\ r.via = provider[r.order] /\ r.event = outcome[r.order]
                 THEN acked \cup {r.order} ELSE acked
     /\ good' = good \ {h}
     /\ req' = [req EXCEPT ![h] = NoRequest]
     /\ pc' = [pc EXCEPT ![h] = "idle"]
     /\ UNCHANGED <<rows, outcome, ordered, locks, mine, failures>>

\* A node dies with its handlers and its mutexes.
Crash(n) ==
  LET dead == {h \in Handlers : Node[h] = n}
  IN /\ crashes < MaxCrashes
     /\ crashes' = crashes + 1
     /\ orderLocks' = [orderLocks EXCEPT ![n] = [o \in Orders |-> None]]
     /\ refCount' = [refCount EXCEPT ![n] = [m \in Mutexes |-> 0]]
     /\ held' = [held EXCEPT ![n] = {}]
     /\ pc' = [h \in Handlers |-> IF h \in dead THEN "idle" ELSE pc[h]]
     /\ req' = [h \in Handlers |-> IF h \in dead THEN NoRequest ELSE req[h]]
     /\ mine' = [h \in Handlers |-> IF h \in dead THEN None ELSE mine[h]]
     /\ good' = good \ dead
     /\ UNCHANGED <<rows, gateway, faults, glossed>>
-----------------------------------------------------------------------------
Work(h) ==
  \/ EnterLockOrder(h)
  \/ CreemCheck(h)
  \/ ReadRow(h)
  \/ CommitGrant(h)
  \/ EpayMark(h)
  \/ EpayCredit(h)
  \/ CloseOrder(h)
  \/ Unlock(h)
  \/ Uncount(h)
  \/ Answer(h)

Environment ==
  \/ PurchasesChange
  \/ \E o \in Orders :
       \/ \E p \in Providers, isSub \in BOOLEAN : CreateOrder(o, p, isSub)
       \/ CheckoutFails(o)
       \/ \E end \in {"paid", "failed", "expired"} : PaymentEnds(o, end)
       \/ \E h \in Handlers :
            \/ \E event \in Reports(o) : Deliver(h, o, event)
            \/ \E p \in Strangers : DeliverForeign(h, o, p)
            \/ AdminComplete(h, o)

Next ==
  \/ Environment
  \/ \E h \in Handlers :
       Work(h) \/ Acquire(h) \/ WriteFails(h) \/ ReadFails(h)
  \/ \E n \in Nodes : Crash(n)

\* A running handler goes on; sync.Mutex lets nobody wait for ever; a gateway
\* without a good answer to how the payment ended delivers that again until a
\* handler takes it.
Fairness ==
  /\ \A h \in Handlers : WF_vars(Work(h)) /\ SF_vars(Acquire(h))
  /\ \A o \in Orders :
       SF_vars(\E h \in Handlers :
                 o \notin acked /\ Deliver(h, o, outcome[o]))

Spec == Init /\ [][Next]_vars
FairSpec == Spec /\ Fairness
-----------------------------------------------------------------------------
\* What an order is worth: what its own gateway's handler gives for it.
Bought(o) == Quota([order |-> o, via |-> provider[o], event |-> "paid"])

Pcs == {"idle", "arrived", "waiting", "inside", "checked", "granting",
        "crediting", "closing", "leaving", "uncount", "answer"}

TypeOK ==
  /\ provider \in [Orders -> Providers \cup {"none"}]
  /\ sub \subseteq Orders
  /\ status \in [Orders -> Statuses]
  /\ granted \in [Orders -> Nat]
  /\ purchased \in Nat
  /\ outcome \in [Orders -> Outcomes]
  /\ acked \subseteq Orders
  /\ ordered \subseteq Orders
  /\ orderLocks \in [Nodes -> [Orders -> Mutexes \cup {None}]]
  /\ refCount \in [Nodes -> [Mutexes -> Nat]]
  /\ held \in [Nodes -> SUBSET Mutexes]
  /\ pc \in [Handlers -> Pcs]
  /\ req \in [Handlers -> Requests]
  /\ mine \in [Handlers -> Mutexes \cup {None}]
  /\ good \subseteq Handlers
  /\ faults \in 0..MaxFaults
  /\ crashes \in 0..MaxCrashes
  /\ glossed \subseteq Orders

\* Between LockOrder and UnlockOrder.
Inside(h) ==
  /\ pc[h] \in {"inside", "checked", "granting", "crediting", "closing",
                "leaving"}
  /\ Locks(req[h])

\* Two requests for one order on one node are never both between LockOrder
\* and UnlockOrder, however the map's entry comes and goes under them.
OneInside ==
  \A g, h \in Handlers :
    /\ g # h
    /\ Node[g] = Node[h]
    /\ Inside(g)
    /\ Inside(h)
    => Cell(g) # Cell(h)

\* Confirmed several times, by the gateway and by an administrator at once,
\* an order is granted at most once and for what it is worth (top-ups and
\* subscriptions alike).
GrantedOnce == \A o \in Orders : granted[o] \in {0, Bought(o)}

\* The row tells the truth: an order that is completed in one transaction is
\* a success exactly when it was granted, in spite of crashes and failed
\* writes.  Of the two writes of EpayNotify the second may be missing, but
\* only while it is being done or after a failure.  A Waffo order may have
\* been closed without the lock after it was granted, and so may a Pancake
\* order if an administrator completed it before its checkout failed.
RowTellsGrant ==
  \A o \in Orders :
    LET twoWrites == provider[o] = "epay" /\ o \notin sub
    IN /\ granted[o] > 0 =>
            \/ status[o] = "success"
            \/ provider[o] = "waffo"
            \/ provider[o] = "pancake" /\ o \in ordered
       /\ status[o] = "success" /\ granted[o] = 0 =>
            /\ twoWrites
            /\ \/ \E h \in Handlers : pc[h] = "crediting" /\ Cell(h) = o
               \/ faults + crashes > 0

\* A payment at a gateway that repeats itself until the order is completed
\* (Creem, Waffo, Pancake, and Epay for a subscription) is granted in the
\* end, whatever crashed or failed on the way, with three exceptions: Waffo
\* has reported something else than success and the order was closed for it
\* (topup_waffo.go:379); the subscription is refused at the plan's limit
\* (model/subscription.go:491); the webhook of Pancake, or of Creem for a
\* subscription, took a failed read for an unknown order and answered well.
PaidIsGranted ==
  \A o \in Orders :
    /\ outcome[o] = "paid"
    /\ \/ provider[o] \in {"creem", "waffo", "pancake"}
       \/ provider[o] = "epay" /\ o \in sub
    ~> \/ granted[o] > 0
       \/ provider[o] = "waffo" /\ status[o] = "failed"
       \/ LimitReached(o)
       \/ /\ o \in glossed
          /\ provider[o] = "pancake" \/ (provider[o] = "creem" /\ o \in sub)

\* The abstract ledger, seen through the rows and the gateways.
ledger ==
  INSTANCE Ledger WITH
    worth <- [o \in Orders |-> IF status[o] = "none" THEN 0 ELSE Bought(o)],
    approved <- {o \in Orders : outcome[o] = "paid"} \cup ordered

\* However requests, crashes and failures interleave, the payment code does
\* what Ledger promises.
LedgerSpec == ledger!Spec
=============================================================================
