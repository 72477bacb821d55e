--------------------------- MODULE BillingSession ---------------------------
(***************************************************************************)
(* The life of a billed relay request: service/billing_session.go over the *)
(* two funding sources of service/funding_source.go.                       *)
(*                                                                         *)
(* Several requests of one user run concurrently.  A request reads the     *)
(* user's wallet, takes its estimate from the API token and then from the  *)
(* wallet or the user's subscription, relays, and finally settles to the   *)
(* real consumption or gives everything back.  Every database operation is *)
(* a step of its own, so the steps of different requests interleave, and   *)
(* every one of them may fail (FaultKinds, MaxFaults).                     *)
(*                                                                         *)
(* A live session is driven by the most general client of the interface    *)
(* BillingSettler (relay/common/billing.go): Reserve, Settle and Refund in *)
(* any order and repeatedly, except that no handler settles a request it   *)
(* has refunded.  s.mu is held from the call of Settle or Reserve until it *)
(* returns: while it is, pc is not "live".  The goroutine that Refund      *)
(* starts runs without the lock, its program counter is job.               *)
(***************************************************************************)
EXTENDS Integers, FiniteSets

CONSTANTS
  Requests,       \* relay requests, all of the same user
  Tokens,         \* the user's API tokens
  TokenOf,        \* the token a request authenticates with
  Unlimited,      \* the tokens with UnlimitedQuota
  Playground,     \* requests with IsPlayground: they have no token
  ForcePreConsume,\* requests of asynchronous tasks
  Realtime,       \* websocket requests, charged turn by turn; the playground
                  \* has none
  Quotas,         \* the estimates, targets and real consumptions
  ViolationFee,   \* calcViolationFeeQuota, 0 when the deduction is disabled
  Preferences,    \* the billing preferences users may have set
  TrustQuota,     \* GetTrustQuota()
  InitWallet, InitToken,
  SubTotal,       \* AmountTotal of the subscription, 0 is unlimited
  AllowOverflow,  \* its allow_wallet_overflow
  Serialised,     \* the database runs transactions one after the other
  NestedCommits,  \* a transaction commits while the one around it is open
  FaultKinds,     \* the database operations that may fail
  MaxFaults,      \* bound: how many operations fail
  MaxDirect       \* bound: turns of one realtime request

AllPreferences ==
  {"subscription_only", "wallet_only", "wallet_first", "subscription_first"}

\* A read, a token or funding update, or the save of the refund record fails;
\* "ack": that save is committed but the answer is lost.
AllFaults == {"read", "token", "funds", "mark", "ack"}

ASSUME ConstantsAssumption ==
  /\ TokenOf \in [Requests -> Tokens]
  /\ Unlimited \subseteq Tokens
  /\ Playground \subseteq Requests
  /\ ForcePreConsume \subseteq Requests
  /\ Realtime \subseteq Requests \ Playground
  /\ Quotas \subseteq Nat
  /\ ViolationFee \in Nat
  /\ Preferences \subseteq AllPreferences
  /\ TrustQuota \in Nat
  /\ InitWallet \in Int
  /\ InitToken \in [Tokens -> Int]
  /\ SubTotal \in Nat
  /\ AllowOverflow \in BOOLEAN
  /\ Serialised \in BOOLEAN
  /\ NestedCommits \in BOOLEAN
  /\ FaultKinds \subseteq AllFaults
  /\ MaxFaults \in Nat
  /\ MaxDirect \in Nat

VARIABLES
  wallet,     \* users.quota
  token,      \* tokens.remain_quota
  subUsed,    \* user_subscriptions.amount_used
  subActive,  \* its status is active and end_time is in the future
  record,     \* status of the request's subscription_pre_consume_record
  pc,         \* where the handler of the request is
  arg,        \* the delta or target of the call that holds s.mu
  job,        \* where the goroutine started by Refund is
  attempt,    \* i of refundWithRetry
  pref, est,  \* RelayInfo: billing preference, estimated quota
  userQuota, tokenQuota,  \* RelayInfo, context: what admission has seen
  funding,    \* BillingSession: wallet or subscription
  preConsumedQuota, tokenConsumed, extraReserved,
  consumed,   \* WalletFunding.consumed, SubscriptionFunding.preConsumed
  trusted, fundingSettled, settled, refunded, \* the requests so flagged
  actual,     \* the last argument of Settle
  charged,    \* ghost: what the session has taken from its funding source
  tokenCharged, \* ghost: what the session has taken from the token
  usage,      \* sumUsage of a realtime session, as quota
  direct,     \* ghost: what PostConsumeQuota has taken past the session
  nDirect,    \* ghost: how many turns there were
  callSeen, jobSeen, \* what amount_used has been since the last step of
              \* the request's handler, and of its goroutine
  faults,     \* ghost: how many operations have failed
  faulty      \* ghost: the requests one of whose operations has failed

balances == <<wallet, token, subUsed>>
intake   == <<pref, est, userQuota, tokenQuota>>
amounts  == <<preConsumedQuota, tokenConsumed, extraReserved, consumed>>
flags    == <<trusted, fundingSettled, settled, refunded, actual>>
session  == <<funding, amounts, flags>>
turns    == <<usage, direct, nDirect>>
ghosts   == <<charged, tokenCharged, turns>>
seen     == <<callSeen, jobSeen>>
vars == <<balances, subActive, record, pc, arg, job, attempt, intake, session,
          ghosts, seen, faults, faulty>>

\* A serialised transaction sees the present, and needs no memory.
Remembered(used) == IF Serialised THEN {} ELSE {used}

Init ==
  /\ wallet = InitWallet
  /\ token = InitToken
  /\ subUsed = 0
  /\ subActive \in BOOLEAN
  /\ record = [r \in Requests |-> "none"]
  /\ pc = [r \in Requests |-> "idle"]
  /\ arg = [r \in Requests |-> 0]
  /\ job = [r \in Requests |-> "none"]
  /\ attempt = [r \in Requests |-> 0]
  /\ pref = [r \in Requests |-> "subscription_first"]
  /\ est = [r \in Requests |-> 0]
  /\ userQuota = [r \in Requests |-> 0]
  /\ tokenQuota = [r \in Requests |-> 0]
  /\ funding = [r \in Requests |-> "none"]
  /\ preConsumedQuota = [r \in Requests |-> 0]
  /\ tokenConsumed = [r \in Requests |-> 0]
  /\ extraReserved = [r \in Requests |-> 0]
  /\ consumed = [r \in Requests |-> 0]
  /\ trusted = {} /\ fundingSettled = {} /\ settled = {} /\ refunded = {}
  /\ actual = [r \in Requests |-> 0]
  /\ charged = [r \in Requests |-> 0]
  /\ tokenCharged = [r \in Requests |-> 0]
  /\ usage = [r \in Requests |-> 0]
  /\ direct = [r \in Requests |-> 0]
  /\ nDirect = [r \in Requests |-> 0]
  /\ callSeen = [r \in Requests |-> Remembered(subUsed)]
  /\ jobSeen = [r \in Requests |-> Remembered(subUsed)]
  /\ faults = 0
  /\ faulty = {}
-----------------------------------------------------------------------------
(***************************************************************************)
(* Database operations                                                     *)
(***************************************************************************)

\* An operation of the request returns an error and changes nothing.
Fails(r, kind) ==
  /\ kind \in FaultKinds
  /\ faults < MaxFaults
  /\ faults' = faults + 1
  /\ faulty' = faulty \union {r}

Succeeds == UNCHANGED <<faults, faulty>>

OnWallet(r) == funding[r] = "wallet"

\* The transactions on the subscription read amount_used and later save the
\* whole row.  The query option "FOR UPDATE" they set is one of GORM v1 and
\* locks nothing in v2: unless the database serialises transactions (SQLite)
\* what was read may be old by then.
SubReads(old) == IF Serialised THEN {subUsed} ELSE old

\* PostConsumeUserSubscriptionDelta refuses to go over the total ...
SubAccepts(used, d) == ~(SubTotal > 0 /\ used + d > SubTotal)
\* ... and never goes below zero.  (Mutant: the clamp takes a 1 with it.)
SubAfterOffByOne(used, d) == IF used + d < 2 THEN 0 ELSE used + d
SubAfter(used, d) == IF used + d < 0 THEN 0 ELSE used + d

\* DecreaseUserQuota, IncreaseUserQuota or PostConsumeUserSubscriptionDelta:
\* d more (less, when negative) is taken from the request's funding source.
\* Nothing is read or written for a d of 0.
TakesFunds(r, d, old) ==
  IF OnWallet(r) \/ d = 0
  THEN wallet' = wallet - d /\ UNCHANGED subUsed
  ELSE /\ \E used \in SubReads(old) :
            SubAccepts(used, d) /\ subUsed' = SubAfter(used, d)
       /\ UNCHANGED wallet

SubRefused(r, d) ==
  \E used \in SubReads(callSeen[r]) : ~SubAccepts(used, d)
FundsRefused(r, d) == ~OnWallet(r) /\ SubRefused(r, d)

\* DecreaseTokenQuota, IncreaseTokenQuota.
TakesToken(r, d) == token' = [token EXCEPT ![TokenOf[r]] = @ - d]

\* PreConsumeTokenQuota refuses when what it reads is less than it needs.
TokenSuffices(r, q) == TokenOf[r] \in Unlimited \/ token[TokenOf[r]] >= q

\* A call enters its first step with its argument, moves on, and returns.
Call(r, l, d) == pc' = [pc EXCEPT ![r] = l] /\ arg' = [arg EXCEPT ![r] = d]
Goto(r, l) ==
  Call(r, l, IF l \in {"live", "rejected", "closed"} THEN 0 ELSE arg[r])

Charge(r, d) == charged' = [charged EXCEPT ![r] = @ + d]
ChargeToken(r, d) == tokenCharged' = [tokenCharged EXCEPT ![r] = @ + d]
-----------------------------------------------------------------------------
(***************************************************************************)
(* NewBillingSession: admission, token and funding pre-consumption         *)
(***************************************************************************)

\* The middleware has seen the token, the price helper has made an estimate.
Start(r) ==
  /\ pc[r] = "idle"
  /\ \E p \in Preferences : pref' = [pref EXCEPT ![r] = p]
  /\ \E q \in Quotas : est' = [est EXCEPT ![r] = q]
  /\ tokenQuota' = [tokenQuota EXCEPT ![r] = token[TokenOf[r]]]
  /\ UNCHANGED userQuota
  /\ Goto(r, "choose")
  /\ UNCHANGED <<balances, subActive, record, job, attempt, session, ghosts,
                 faults, faulty>>

\* The preference chooses the first funding source; subscription_first asks
\* the database whether there is an active subscription.
ChooseFunding(r) ==
  /\ pc[r] = "choose"
  /\ \/ /\ \/ pref[r] \in {"wallet_only", "wallet_first"}
           \/ pref[r] = "subscription_first" /\ ~subActive
        /\ Goto(r, "readWallet")
        /\ UNCHANGED session
        /\ Succeeds
     \/ /\ \/ pref[r] = "subscription_only"
           \/ pref[r] = "subscription_first" /\ subActive
        /\ Goto(r, "readToken")
        /\ funding' = [funding EXCEPT ![r] = "subscription"]
        /\ UNCHANGED <<amounts, flags>>
        /\ Succeeds
     \/ /\ pref[r] = "subscription_first"
        /\ Fails(r, "read")
        /\ Goto(r, "rejected")
        /\ UNCHANGED session
  /\ UNCHANGED <<balances, subActive, record, job, attempt, intake, ghosts>>

\* Mutant: only an empty wallet is refused.
WalletNotEmpty(r) == wallet > 0

WalletSuffices(r) == wallet > 0 /\ wallet - est[r] >= 0

\* tryWallet up to session.preConsume: the balance is only read here.
TryWallet(r) ==
  /\ pc[r] = "readWallet"
  /\ \/ /\ WalletSuffices(r)
        /\ userQuota' = [userQuota EXCEPT ![r] = wallet]
        /\ UNCHANGED <<pref, est, tokenQuota>>
        /\ funding' = [funding EXCEPT ![r] = "wallet"]
        /\ UNCHANGED <<amounts, flags>>
        /\ Goto(r, "readToken")
        /\ Succeeds
     \/ /\ ~WalletSuffices(r)
        /\ IF pref[r] = "wallet_first"
           THEN /\ funding' = [funding EXCEPT ![r] = "subscription"]
                /\ UNCHANGED <<amounts, flags>>
                /\ Goto(r, "readToken")
           ELSE Goto(r, "rejected") /\ UNCHANGED session
        /\ UNCHANGED intake
        /\ Succeeds
     \/ /\ Fails(r, "read")
        /\ Goto(r, "rejected")
        /\ UNCHANGED <<intake, session>>
  /\ UNCHANGED <<balances, subActive, record, job, attempt, ghosts>>

\* shouldTrust: only the wallet, and only on what was seen earlier.
ShouldTrust(r) ==
  /\ r \notin ForcePreConsume
  /\ TrustQuota > 0
  /\ TokenOf[r] \in Unlimited \/ tokenQuota[r] > TrustQuota
  /\ OnWallet(r)
  /\ userQuota[r] > TrustQuota

\* The subscription always takes at least 1 (subConsume).
Amount(r) ==
  IF ~OnWallet(r) /\ est[r] = 0 THEN 1 ELSE est[r]

EffectiveQuota(r) == IF ShouldTrust(r) THEN 0 ELSE Amount(r)

\* preConsume, trust check and the read of PreConsumeTokenQuota.
PreConsumeTokenRead(r) ==
  /\ pc[r] = "readToken"
  /\ LET q == EffectiveQuota(r) IN
     \/ /\ q = 0
        /\ trusted' = IF ShouldTrust(r) THEN trusted \union {r} ELSE trusted
        /\ UNCHANGED <<funding, amounts, fundingSettled, settled, refunded,
                       actual>>
        /\ Goto(r, "live")
        /\ Succeeds
     \/ /\ q > 0 /\ r \in Playground
        /\ tokenConsumed' = [tokenConsumed EXCEPT ![r] = q]
        /\ UNCHANGED <<funding, preConsumedQuota, extraReserved, consumed,
                       flags>>
        /\ Goto(r, "takeFunds")
        /\ Succeeds
     \/ /\ q > 0 /\ r \notin Playground
        /\ Goto(r, IF TokenSuffices(r, q) THEN "takeToken" ELSE "rejected")
        /\ UNCHANGED session
        /\ Succeeds
     \/ /\ q > 0 /\ r \notin Playground
        /\ Fails(r, "read")
        /\ Goto(r, "rejected")
        /\ UNCHANGED session
  /\ UNCHANGED <<balances, subActive, record, job, attempt, intake, ghosts>>

\* The write of PreConsumeTokenQuota.
PreConsumeTokenWrite(r) ==
  /\ pc[r] = "takeToken"
  /\ LET q == Amount(r) IN
     \/ /\ TakesToken(r, q)
        /\ ChargeToken(r, q)
        /\ tokenConsumed' = [tokenConsumed EXCEPT ![r] = q]
        /\ UNCHANGED <<funding, preConsumedQuota, extraReserved, consumed,
                       flags>>
        /\ Goto(r, "takeFunds")
        /\ Succeeds
     \/ /\ Fails(r, "token")
        /\ Goto(r, "rejected")
        /\ UNCHANGED <<token, tokenCharged, session>>
  /\ UNCHANGED <<wallet, subUsed, subActive, record, job, attempt, intake,
                 charged, turns>>

\* funding.PreConsume: the wallet is decremented unconditionally, the
\* subscription transaction checks that one is active and has enough left
\* and writes the pre-consume record with the increment.  An error while it
\* lists the subscriptions is reported as "no active subscription".
PreConsumeFunds(r) ==
  /\ pc[r] = "takeFunds"
  /\ LET q == Amount(r) IN
     \/ /\ OnWallet(r) \/ subActive
        /\ TakesFunds(r, q, callSeen[r])
        /\ Charge(r, q)
        /\ consumed' = [consumed EXCEPT ![r] = q]
        /\ preConsumedQuota' = [preConsumedQuota EXCEPT ![r] = q]
        /\ UNCHANGED <<funding, tokenConsumed, extraReserved, flags>>
        /\ record' = [record EXCEPT ![r] =
                        IF OnWallet(r) THEN @ ELSE "consumed"]
        /\ Goto(r, "live")
        /\ Succeeds
     \/ /\ ~OnWallet(r) /\ (subActive => SubRefused(r, q))
        /\ Goto(r, "undoInsufficient")
        /\ UNCHANGED <<wallet, subUsed, charged, session, record>>
        /\ Succeeds
     \/ /\ Fails(r, "funds")
        /\ Goto(r, "undoError")
        /\ UNCHANGED <<wallet, subUsed, charged, session, record>>
     \/ /\ ~OnWallet(r)
        /\ Fails(r, "read")
        /\ Goto(r, "undoInsufficient")
        /\ UNCHANGED <<wallet, subUsed, charged, session, record>>
  /\ UNCHANGED <<token, subActive, job, attempt, intake, tokenCharged,
                 turns>>

\* The rollback of the token in preConsume; its failure is only logged.
RollbackToken(r) ==
  /\ pc[r] \in {"undoInsufficient", "undoError"}
  /\ \/ /\ IF r \in Playground
           THEN UNCHANGED <<token, tokenCharged>>
           ELSE /\ TakesToken(r, -tokenConsumed[r])
                /\ ChargeToken(r, -tokenConsumed[r])
        /\ Succeeds
     \/ /\ r \notin Playground
        /\ Fails(r, "token")
        /\ UNCHANGED <<token, tokenCharged>>
  /\ funding' = [funding EXCEPT ![r] = "none"]
  /\ tokenConsumed' = [tokenConsumed EXCEPT ![r] = 0]
  /\ UNCHANGED <<preConsumedQuota, extraReserved, consumed, flags>>
  /\ Goto(r, IF pc[r] = "undoInsufficient" /\ pref[r] = "subscription_first"
             THEN "overflow" ELSE "rejected")
  /\ UNCHANGED <<wallet, subUsed, subActive, record, job, attempt, intake,
                 charged, turns>>

\* Mutant: the fallback starts over instead of going to the wallet.
CheckOverflowStartsOver(r) ==
  /\ pc[r] = "overflow"
  /\ Goto(r, "choose")
  /\ UNCHANGED <<balances, subActive, record, job, attempt, intake, session,
                 ghosts, faults, faulty>>

\* Only a subscription_first request without enough subscription falls back
\* to the wallet, unless an active subscription forbids it.
CheckOverflow(r) ==
  /\ pc[r] = "overflow"
  /\ \/ /\ Goto(r, IF ~subActive \/ AllowOverflow THEN "readWallet"
                                                  ELSE "rejected")
        /\ Succeeds
     \/ /\ Fails(r, "read")
        /\ Goto(r, "rejected")
  /\ UNCHANGED <<balances, subActive, record, job, attempt, intake, session,
                 ghosts>>
-----------------------------------------------------------------------------
(***************************************************************************)
(* Settle                                                                  *)
(***************************************************************************)

\* What a handler may settle: PostWssConsumeQuota the sum of the turns, any
\* other handler what the upstream reports.
SettleArgs(r) == IF r \in Realtime THEN {usage[r]} ELSE Quotas

\* Mutant: no early return for a session that is already settled.
SettleAgain(r) ==
  /\ pc[r] = "live"
  /\ r \notin refunded
  /\ \E q \in SettleArgs(r) :
       /\ actual' = [actual EXCEPT ![r] = q]
       /\ Call(r, "settleFunds", q - preConsumedQuota[r])
  /\ UNCHANGED <<balances, subActive, record, job, attempt, intake, ghosts,
                 funding, amounts, trusted, fundingSettled, settled, refunded,
                 faults, faulty>>

\* Settle(q) takes s.mu; equal quotas settle without any transfer.
Settle(r) ==
  /\ pc[r] = "live"
  /\ r \notin refunded
  /\ r \notin settled
  /\ \E q \in SettleArgs(r) :
       LET delta == q - preConsumedQuota[r] IN
       /\ actual' = [actual EXCEPT ![r] = q]
       /\ settled' = IF delta = 0 THEN settled \union {r} ELSE settled
       /\ UNCHANGED <<funding, amounts, trusted, fundingSettled, refunded>>
       /\ Call(r, IF delta = 0 THEN "live" ELSE "settleFunds", delta)
  /\ UNCHANGED <<balances, subActive, record, job, attempt, intake, ghosts,
                 faults, faulty>>

\* funding.Settle(delta); an error leaves the session as it was.
SettleFunds(r) ==
  /\ pc[r] = "settleFunds"
  /\ \/ /\ TakesFunds(r, arg[r], callSeen[r])
        /\ Charge(r, arg[r])
        /\ fundingSettled' = fundingSettled \union {r}
        /\ UNCHANGED <<funding, amounts, trusted, settled, refunded, actual>>
        /\ Goto(r, "settleToken")
        /\ Succeeds
     \/ /\ FundsRefused(r, arg[r])
        /\ Goto(r, "live")
        /\ UNCHANGED <<wallet, subUsed, charged, session>>
        /\ Succeeds
     \/ /\ Fails(r, "funds")
        /\ Goto(r, "live")
        /\ UNCHANGED <<wallet, subUsed, charged, session>>
  /\ UNCHANGED <<token, subActive, record, job, attempt, intake,
                 tokenCharged, turns>>

\* The token follows; if that fails the session is settled all the same.
SettleToken(r) ==
  /\ pc[r] = "settleToken"
  /\ \/ /\ IF r \in Playground
           THEN UNCHANGED <<token, tokenCharged>>
           ELSE TakesToken(r, arg[r]) /\ ChargeToken(r, arg[r])
        /\ Succeeds
     \/ /\ r \notin Playground
        /\ Fails(r, "token")
        /\ UNCHANGED <<token, tokenCharged>>
  /\ settled' = settled \union {r}
  /\ UNCHANGED <<funding, amounts, trusted, fundingSettled, refunded, actual>>
  /\ Goto(r, "live")
  /\ UNCHANGED <<wallet, subUsed, subActive, record, job, attempt, intake,
                 charged, turns>>
-----------------------------------------------------------------------------
(***************************************************************************)
(* Reserve                                                                 *)
(***************************************************************************)

\* Mutant: a target below the pre-consumed quota is not a no-op.
ReserveDown(r) ==
  /\ pc[r] = "live"
  /\ r \notin settled \union refunded \union trusted
  /\ \E target \in Quotas :
       Call(r, "reserveFunds", target - preConsumedQuota[r])
  /\ UNCHANGED <<balances, subActive, record, job, attempt, intake, session,
                 ghosts, faults, faulty>>

\* Reserve(target) takes s.mu; a trusted session and a target that is
\* already reserved are no-ops.
Reserve(r) ==
  /\ pc[r] = "live"
  /\ r \notin settled \union refunded \union trusted
  /\ \E target \in Quotas :
       /\ target > preConsumedQuota[r]
       /\ Call(r, "reserveFunds", target - preConsumedQuota[r])
  /\ UNCHANGED <<balances, subActive, record, job, attempt, intake, session,
                 ghosts, faults, faulty>>

\* reserveFunding
ReserveFunds(r) ==
  /\ pc[r] = "reserveFunds"
  /\ \/ /\ TakesFunds(r, arg[r], callSeen[r])
        /\ Charge(r, arg[r])
        /\ consumed' = [consumed EXCEPT ![r] =
                          IF OnWallet(r) THEN @ + arg[r] ELSE @]
        /\ UNCHANGED <<funding, preConsumedQuota, tokenConsumed,
                       extraReserved, flags>>
        /\ Goto(r, "reserveRead")
        /\ Succeeds
     \/ /\ FundsRefused(r, arg[r])
        /\ Goto(r, "live")
        /\ UNCHANGED <<wallet, subUsed, charged, session>>
        /\ Succeeds
     \/ /\ Fails(r, "funds")
        /\ Goto(r, "live")
        /\ UNCHANGED <<wallet, subUsed, charged, session>>
  /\ UNCHANGED <<token, subActive, record, job, attempt, intake,
                 tokenCharged, turns>>

\* Mutants: one of the three sums is forgotten.
ReservedNoPreConsumed(r) ==
  /\ tokenConsumed' = [tokenConsumed EXCEPT ![r] = @ + arg[r]]
  /\ extraReserved' = [extraReserved EXCEPT ![r] = @ + arg[r]]
  /\ UNCHANGED <<funding, preConsumedQuota, consumed, flags>>
ReservedNoExtra(r) ==
  /\ preConsumedQuota' = [preConsumedQuota EXCEPT ![r] = @ + arg[r]]
  /\ tokenConsumed' = [tokenConsumed EXCEPT ![r] = @ + arg[r]]
  /\ UNCHANGED <<funding, extraReserved, consumed, flags>>

\* The three sums at the end of Reserve.
Reserved(r) ==
  /\ preConsumedQuota' = [preConsumedQuota EXCEPT ![r] = @ + arg[r]]
  /\ tokenConsumed' = [tokenConsumed EXCEPT ![r] = @ + arg[r]]
  /\ extraReserved' = [extraReserved EXCEPT ![r] = @ + arg[r]]
  /\ UNCHANGED <<funding, consumed, flags>>

\* reserveToken, the read of PreConsumeTokenQuota.
ReserveTokenRead(r) ==
  /\ pc[r] = "reserveRead"
  /\ \/ /\ r \in Playground
        /\ Reserved(r)
        /\ Goto(r, "live")
        /\ Succeeds
     \/ /\ r \notin Playground
        /\ Goto(r, IF TokenSuffices(r, arg[r]) THEN "reserveWrite"
                                               ELSE "reserveUndo")
        /\ UNCHANGED session
        /\ Succeeds
     \/ /\ r \notin Playground
        /\ Fails(r, "read")
        /\ Goto(r, "reserveUndo")
        /\ UNCHANGED session
  /\ UNCHANGED <<balances, subActive, record, job, attempt, intake, ghosts>>

\* reserveToken, the write of PreConsumeTokenQuota.
ReserveTokenWrite(r) ==
  /\ pc[r] = "reserveWrite"
  /\ \/ /\ TakesToken(r, arg[r])
        /\ ChargeToken(r, arg[r])
        /\ Reserved(r)
        /\ Goto(r, "live")
        /\ Succeeds
     \/ /\ Fails(r, "token")
        /\ Goto(r, "reserveUndo")
        /\ UNCHANGED <<token, tokenCharged, session>>
  /\ UNCHANGED <<wallet, subUsed, subActive, record, job, attempt, intake,
                 charged, turns>>

\* rollbackFundingReserve; a failed rollback stays in WalletFunding.consumed.
RollbackReserve(r) ==
  /\ pc[r] = "reserveUndo"
  /\ \/ /\ TakesFunds(r, -arg[r], callSeen[r])
        /\ Charge(r, -arg[r])
        /\ consumed' = [consumed EXCEPT ![r] =
                          IF OnWallet(r) THEN @ - arg[r] ELSE @]
        /\ UNCHANGED <<funding, preConsumedQuota, tokenConsumed,
                       extraReserved, flags>>
        /\ Succeeds
     \/ /\ Fails(r, "funds")
        /\ UNCHANGED <<wallet, subUsed, charged, session>>
  /\ Goto(r, "live")
  /\ UNCHANGED <<token, subActive, record, job, attempt, intake,
                 tokenCharged, turns>>
-----------------------------------------------------------------------------
(***************************************************************************)
(* Refund                                                                  *)
(***************************************************************************)

\* Mutants: the test of the settled or of the refunded flag is missing.
NeedsRefundSettled(r) == r \notin refunded /\ tokenConsumed[r] > 0
NeedsRefundAgain(r) ==
  r \notin settled \union fundingSettled /\ tokenConsumed[r] > 0

\* consumed stands for SubscriptionFunding.preConsumed as well.
NeedsRefundLocked(r) ==
  /\ r \notin settled \union refunded \union fundingSettled
  /\ tokenConsumed[r] > 0 \/ (~OnWallet(r) /\ consumed[r] > 0)

\* Under s.mu: mark, then start the goroutine.
Refund(r) ==
  /\ pc[r] = "live"
  /\ NeedsRefundLocked(r)
  /\ refunded' = refunded \union {r}
  /\ UNCHANGED <<funding, amounts, trusted, fundingSettled, settled, actual>>
  /\ job' = [job EXCEPT ![r] = "funds"]
  /\ UNCHANGED <<balances, subActive, record, pc, arg, attempt, intake, ghosts,
                 faults, faulty>>

\* WalletFunding.Refund: not idempotent, therefore tried only once.
RefundWallet(r) ==
  /\ job[r] = "funds" /\ OnWallet(r)
  /\ \/ /\ TakesFunds(r, -consumed[r], jobSeen[r])
        /\ Charge(r, -consumed[r])
        /\ Succeeds
     \/ Fails(r, "funds") /\ UNCHANGED <<wallet, subUsed, charged>>
  /\ job' = [job EXCEPT ![r] = "token"]
  /\ UNCHANGED <<token, subActive, record, pc, arg, attempt, intake, session,
                 tokenCharged, turns>>

\* Mutant: the goroutine returns when the attempts are used up.
NextAttemptGivesUp(r) ==
  /\ attempt' = [attempt EXCEPT ![r] = @ + 1]
  /\ job' = [job EXCEPT ![r] = IF attempt[r] + 1 < 3 THEN "funds" ELSE "none"]

\* refundWithRetry: three attempts, then the goroutine goes on without.
NextAttempt(r) ==
  /\ attempt' = [attempt EXCEPT ![r] = @ + 1]
  /\ job' = [job EXCEPT ![r] = IF attempt[r] + 1 < 3 THEN "funds" ELSE "extra"]

\* RefundSubscriptionPreConsume gives the amount back in a transaction within
\* its own (PostConsumeUserSubscriptionDelta uses DB, not the tx it is called
\* from).  SQLite lets no transaction commit while another one has read: there
\* every attempt fails.
NestedFails(r) ==
  /\ ~NestedCommits
  /\ faulty' = faulty \union {r}
  /\ UNCHANGED faults

\* The record is looked at and the amount given back ...
RefundSubscription(r) ==
  /\ job[r] = "funds" /\ ~OnWallet(r)
  /\ \/ /\ record[r] = "refunded"
        /\ job' = [job EXCEPT ![r] = "extra"]
        /\ UNCHANGED <<wallet, subUsed, charged, attempt>>
        /\ Succeeds
     \/ /\ record[r] # "refunded"
        /\ NestedCommits
        /\ TakesFunds(r, -consumed[r], jobSeen[r])
        /\ Charge(r, -consumed[r])
        /\ job' = [job EXCEPT ![r] = "mark"]
        /\ UNCHANGED attempt
        /\ Succeeds
     \/ /\ record[r] # "refunded"
        /\ Fails(r, "funds") \/ NestedFails(r)
        /\ NextAttempt(r)
        /\ UNCHANGED <<wallet, subUsed, charged>>
  /\ UNCHANGED <<token, subActive, record, pc, arg, intake, session,
                 tokenCharged, turns>>

\* ... and only then saves the record's new status and commits.
MarkRefunded(r) ==
  /\ job[r] = "mark"
  /\ \/ /\ record' = [record EXCEPT ![r] = "refunded"]
        /\ job' = [job EXCEPT ![r] = "extra"]
        /\ UNCHANGED attempt
        /\ Succeeds
     \/ /\ Fails(r, "mark")
        /\ NextAttempt(r)
        /\ UNCHANGED record
     \/ /\ Fails(r, "ack")
        /\ NextAttempt(r)
        /\ record' = [record EXCEPT ![r] = "refunded"]
  /\ UNCHANGED <<balances, subActive, pc, arg, intake, session, ghosts>>

\* The part a subscription reserved after the pre-consumption.
RefundExtra(r) ==
  /\ job[r] = "extra"
  /\ \/ /\ TakesFunds(r, -extraReserved[r], jobSeen[r])
        /\ Charge(r, -extraReserved[r])
        /\ Succeeds
     \/ /\ extraReserved[r] > 0
        /\ Fails(r, "funds")
        /\ UNCHANGED <<wallet, subUsed, charged>>
  /\ job' = [job EXCEPT ![r] = "token"]
  /\ UNCHANGED <<token, subActive, record, pc, arg, attempt, intake, session,
                 tokenCharged, turns>>

RefundToken(r) ==
  /\ job[r] = "token"
  /\ \/ /\ IF r \in Playground
           THEN UNCHANGED <<token, tokenCharged>>
           ELSE /\ TakesToken(r, -tokenConsumed[r])
                /\ ChargeToken(r, -tokenConsumed[r])
        /\ Succeeds
     \/ /\ r \notin Playground
        /\ Fails(r, "token")
        /\ UNCHANGED <<token, tokenCharged>>
  /\ job' = [job EXCEPT ![r] = "done"]
  /\ UNCHANGED <<wallet, subUsed, subActive, record, pc, arg, attempt, intake,
                 session, charged, turns>>
-----------------------------------------------------------------------------
(***************************************************************************)
(* PostConsumeQuota past the session, and the subscription's end           *)
(***************************************************************************)

\* preConsumeUsage after a turn of a realtime session adds the turn to the
\* sum, then PreWssConsumeQuota asks whether the wallet, whatever the funding
\* source, and the token can pay it, and charges it.  The reader goroutine
\* may do this even after the handler has settled.
RealtimeTurn(r) ==
  /\ pc[r] = "live"
  /\ r \in Realtime
  /\ r \notin refunded
  /\ nDirect[r] < MaxDirect
  /\ \E q \in Quotas :
       /\ usage' = [usage EXCEPT ![r] = @ + q]
       /\ \/ /\ wallet >= q /\ TokenSuffices(r, q)
             /\ Call(r, "directFunds", q)
             /\ Succeeds
          \/ /\ ~(wallet >= q /\ TokenSuffices(r, q))
             /\ Goto(r, "live")
             /\ Succeeds
          \/ /\ Fails(r, "read")
             /\ Goto(r, "live")
  /\ nDirect' = [nDirect EXCEPT ![r] = @ + 1]
  /\ UNCHANGED <<balances, subActive, record, job, attempt, intake, session,
                 charged, tokenCharged, direct>>

\* ChargeViolationFeeIfNeeded, last step of a handler that failed: Refund,
\* called just before, has started its goroutine if there was one to start.
ChargeViolationFee(r) ==
  /\ pc[r] = "live"
  /\ r \notin settled
  /\ ~NeedsRefundLocked(r)
  /\ ViolationFee > 0
  /\ Call(r, "feeFunds", ViolationFee)
  /\ UNCHANGED <<balances, subActive, record, job, attempt, intake, session,
                 ghosts, faults, faulty>>

\* The handler of a refunded or charged request is over after the fee.
AfterDirect(r) ==
  IF pc[r] \in {"feeFunds", "feeToken"} THEN "closed" ELSE "live"

\* PostConsumeQuota: the funds first ...
DirectFunds(r) ==
  /\ pc[r] \in {"directFunds", "feeFunds"}
  /\ \/ /\ TakesFunds(r, arg[r], callSeen[r])
        /\ direct' = [direct EXCEPT ![r] = @ + arg[r]]
        /\ Goto(r, IF pc[r] = "feeFunds" THEN "feeToken" ELSE "directToken")
        /\ Succeeds
     \/ /\ FundsRefused(r, arg[r])
        /\ Goto(r, AfterDirect(r))
        /\ UNCHANGED <<wallet, subUsed, direct>>
        /\ Succeeds
     \/ /\ Fails(r, "funds")
        /\ Goto(r, AfterDirect(r))
        /\ UNCHANGED <<wallet, subUsed, direct>>
  /\ UNCHANGED <<token, subActive, record, job, attempt, intake, session,
                 charged, tokenCharged, usage, nDirect>>

\* ... then the token.
DirectToken(r) ==
  /\ pc[r] \in {"directToken", "feeToken"}
  /\ \/ /\ IF r \in Playground THEN UNCHANGED token ELSE TakesToken(r, arg[r])
        /\ Succeeds
     \/ r \notin Playground /\ Fails(r, "token") /\ UNCHANGED token
  /\ Goto(r, AfterDirect(r))
  /\ UNCHANGED <<wallet, subUsed, subActive, record, job, attempt, intake,
                 session, ghosts>>

\* ExpireDueSubscriptions, or an administrator, ends the subscription.
ExpireSubscription ==
  /\ subActive
  /\ subActive' = FALSE
  /\ UNCHANGED <<balances, record, pc, arg, job, attempt, intake, session,
                 ghosts, faults, faulty>>
-----------------------------------------------------------------------------
PreConsumeStep(r) ==
  \/ ChooseFunding(r)
  \/ TryWallet(r)
  \/ PreConsumeTokenRead(r)
  \/ PreConsumeTokenWrite(r)
  \/ PreConsumeFunds(r)
  \/ RollbackToken(r)
  \/ CheckOverflow(r)

\* Steps of a call that has begun: they need nobody's decision.
CallStep(r) ==
  \/ SettleFunds(r)
  \/ SettleToken(r)
  \/ ReserveFunds(r)
  \/ ReserveTokenRead(r)
  \/ ReserveTokenWrite(r)
  \/ RollbackReserve(r)
  \/ DirectFunds(r)
  \/ DirectToken(r)

JobStep(r) ==
  \/ RefundWallet(r)
  \/ RefundSubscription(r)
  \/ MarkRefunded(r)
  \/ RefundExtra(r)
  \/ RefundToken(r)

ClientStep(r) ==
  \/ Start(r)
  \/ Settle(r)
  \/ Reserve(r)
  \/ Refund(r)
  \/ RealtimeTurn(r)
  \/ ChargeViolationFee(r)

\* Whoever does not move may still hold what it has read.
Observe ==
  /\ callSeen' =
       [r \in Requests |-> Remembered(subUsed')
          \union (IF pc'[r] = pc[r] THEN callSeen[r] ELSE {})]
  /\ jobSeen' =
       [r \in Requests |-> Remembered(subUsed')
          \union (IF job'[r] = job[r] /\ attempt'[r] = attempt[r]
                  THEN jobSeen[r] ELSE {})]

Step ==
  \/ \E r \in Requests :
       PreConsumeStep(r) \/ CallStep(r) \/ JobStep(r) \/ ClientStep(r)
  \/ ExpireSubscription

Next == Step /\ Observe

Spec == Init /\ [][Next]_vars

\* Handlers and gopool goroutines that have begun a call keep running; the
\* client's calls, the expiry and which operations fail are not scheduled.
Fairness ==
  \A r \in Requests :
    /\ WF_vars(PreConsumeStep(r) /\ Observe)
    /\ WF_vars(CallStep(r) /\ Observe)
    /\ WF_vars(JobStep(r) /\ Observe)

FairSpec == Spec /\ Fairness
-----------------------------------------------------------------------------
\* Before the session is handed to the handler, and from then on.
BeforeLive ==
  {"idle", "choose", "readWallet", "readToken", "takeToken", "takeFunds",
   "undoInsufficient", "undoError", "overflow", "rejected"}
SettleLocs == {"settleFunds", "settleToken"}
ReserveLocs == {"reserveFunds", "reserveRead", "reserveWrite", "reserveUndo"}
DirectLocs == {"directFunds", "directToken", "feeFunds", "feeToken"}
AfterLive == {"live", "closed"} \union SettleLocs \union ReserveLocs
               \union DirectLocs

Locations == BeforeLive \union AfterLive

\* The types of all the variables an action of Step assigns ...
BaseOK ==
  /\ wallet \in Int
  /\ token \in [Tokens -> Int]
  /\ subUsed \in Nat
  /\ subActive \in BOOLEAN
  /\ record \in [Requests -> {"none", "consumed", "refunded"}]
  /\ pc \in [Requests -> Locations]
  /\ arg \in [Requests -> Int]
  /\ job \in [Requests -> {"none", "funds", "mark", "extra", "token", "done"}]
  /\ attempt \in [Requests -> Nat]
  /\ pref \in [Requests -> AllPreferences]
  /\ est \in [Requests -> Nat]
  /\ userQuota \in [Requests -> Int]
  /\ tokenQuota \in [Requests -> Int]
  /\ funding \in [Requests -> {"none", "wallet", "subscription"}]
  /\ preConsumedQuota \in [Requests -> Nat]
  /\ tokenConsumed \in [Requests -> Nat]
  /\ extraReserved \in [Requests -> Nat]
  /\ consumed \in [Requests -> Nat]
  /\ trusted \subseteq Requests
  /\ fundingSettled \subseteq Requests
  /\ settled \subseteq Requests
  /\ refunded \subseteq Requests
  /\ actual \in [Requests -> Nat]
  /\ charged \in [Requests -> Int]
  /\ tokenCharged \in [Requests -> Int]
  /\ usage \in [Requests -> Nat]
  /\ direct \in [Requests -> Nat]
  /\ nDirect \in [Requests -> Nat]
  /\ faults \in Nat
  /\ faulty \subseteq Requests

\* Every balance, session field and program counter keeps its range; what
\* has been pre-consumed, reserved or refunded is never a negative amount,
\* nor is anything a transaction may have read of the subscription.
TypeOK ==
  /\ BaseOK
  /\ callSeen \in [Requests -> SUBSET Nat]
  /\ jobSeen \in [Requests -> SUBSET Nat]

\* What the token owes for q units of consumption: playground has no token.
TokenShare(r, q) == IF r \in Playground THEN 0 ELSE q

\* Settle promises (relay/common/billing.go:8) to bring the funding source
\* and the token to the real consumption, whatever was pre-consumed, trusted
\* or reserved before and whichever calls came in between.
SettledNet ==
  \A r \in Requests \ faulty : r \in settled =>
    /\ charged[r] = actual[r]
    /\ tokenCharged[r] = TokenShare(r, actual[r])

\* A request that was turned away, on whatever path through the two funding
\* sources, or whose refund has run, has paid nothing.
FailedPaysNothing ==
  \A r \in Requests \ faulty : pc[r] = "rejected" \/ job[r] = "done" =>
    charged[r] = 0 /\ tokenCharged[r] = 0

\* Settle and Refund exclude each other (billing_session.go:84): a settled
\* session never has a refund goroutine.
SettledXorRefunded ==
  \A r \in Requests : ~(r \in settled /\ job[r] # "none")

\* However many operations fail, a request is never given back more than
\* was taken from it, neither by its funding source nor by its token.
NeverOverRefunded ==
  \A r \in Requests : charged[r] >= 0 /\ tokenCharged[r] >= 0

\* What each request holds of a funding source, through its session and past
\* it; the same unit by unit, so that the total is the number of units.
Held(source) ==
  [r \in Requests |->
     IF funding[r] = source THEN charged[r] + direct[r] ELSE 0]
Units(held) == UNION {{r} \X (1 .. held[r]) : r \in DOMAIN held}
Taken(source) == Cardinality(Units(Held(source)))

\* The subscription's counter is exactly what its requests hold: the clamp
\* at zero in PostConsumeUserSubscriptionDelta (model/subscription.go:1371)
\* never swallows a part of a refund, no transaction overwrites what another
\* one has added, and no request that holds something changes its source.
SubscriptionAddsUp == subUsed = Taken("subscription")

\* What a session on the wallet has cost by its own fields: WalletFunding's
\* consumed until it is settled, and its consumption from then on, with what a
\* failed rollback of Reserve has left in consumed only.
WalletBook ==
  [r \in Requests |->
     IF ~OnWallet(r) \/ (job[r] \in {"token", "done"}) THEN 0
     ELSE IF r \in settled THEN actual[r] + consumed[r] - preConsumedQuota[r]
     ELSE consumed[r] + (IF pc[r] = "settleToken" THEN arg[r] ELSE 0)]

\* The user's balance is what the fields of the sessions say, however their
\* steps interleave and whatever fails, but for a refund: whose failure is
\* only logged (billing_session.go:108), and leaves no trace.
WalletAddsUp ==
  (\A r \in faulty : ~(OnWallet(r) /\ job[r] \in {"token", "done"})) =>
    wallet = InitWallet - Cardinality(Units(WalletBook))

\* No later call of the session's client and no goroutine changes what a
\* settled request has paid through its session (Refund is a no-op,
\* billing_session.go:84; Settle returns, billing_session.go:44).
SettledIsFinal ==
  [][\A r \in Requests : r \in settled =>
       /\ charged'[r] = charged[r]
       /\ tokenCharged'[r] = tokenCharged[r]]_vars

\* tryWallet checks the balance and DecreaseUserQuota does not: a
\* pre-consumption overdraws the wallet only when another request took from
\* it since the check.
OverdraftNeedsRace ==
  [][\A r \in Requests :
       (/\ pc[r] = "takeFunds" /\ pc'[r] = "live" /\ OnWallet(r)
        /\ wallet' < 0) => wallet < userQuota[r]]_vars

\* A refund that has begun ends, whatever fails on the way
\* (billing_session.go:106, three attempts in funding_source.go:122).
RefundEnds == \A r \in Requests : r \in refunded ~> job[r] = "done"

\* NewBillingSession returns and every call gives s.mu back.
CallsReturn ==
  \A r \in Requests :
    pc[r] \notin {"idle", "live", "rejected", "closed"}
      ~> pc[r] \in {"live", "rejected", "closed"}
-----------------------------------------------------------------------------
(***************************************************************************)
(* The inductive invariant, request by request.                            *)
(***************************************************************************)

\* Which flags and amounts go with which program counters.
ControlInv(r) ==
  /\ pc[r] \in BeforeLive =>
       /\ r \notin settled /\ r \notin refunded /\ r \notin fundingSettled
       /\ preConsumedQuota[r] = 0 /\ extraReserved[r] = 0 /\ consumed[r] = 0
       /\ charged[r] = 0
       /\ record[r] = "none"
  /\ pc[r] \in {"idle", "choose", "readWallet", "readToken", "takeToken",
                "overflow", "rejected"} => tokenConsumed[r] = 0
  /\ pc[r] = "takeFunds" => tokenConsumed[r] = Amount(r)
  /\ pc[r] \in AfterLive => tokenConsumed[r] = preConsumedQuota[r]
  /\ pc[r] \in AfterLive /\ ~OnWallet(r) =>
       consumed[r] + extraReserved[r] = preConsumedQuota[r]
  /\ pc[r] \in SettleLocs =>
       /\ r \notin settled /\ r \notin refunded
       /\ preConsumedQuota[r] + arg[r] = actual[r]
  /\ pc[r] \in ReserveLocs =>
       /\ r \notin settled /\ r \notin refunded /\ r \notin fundingSettled
       /\ arg[r] > 0
  /\ pc[r] \in DirectLocs => arg[r] >= 0
  /\ pc[r] \in {"takeToken", "reserveWrite"} => r \notin Playground
  /\ pc[r] \in {"readToken", "takeToken", "takeFunds"} /\ OnWallet(r) =>
       userQuota[r] >= est[r]
  /\ r \in fundingSettled => r \in settled \/ pc[r] = "settleToken"
  /\ r \in settled => r \notin refunded
  /\ r \in refunded <=> job[r] # "none"
  /\ job[r] \in {"mark", "extra"} => ~OnWallet(r)
  /\ record[r] = "refunded" => job[r] \notin {"none", "mark"}

\* What a call in progress has taken and not yet booked in the session.
InFlight(r) ==
  IF pc[r] \in {"reserveRead", "reserveWrite", "reserveUndo", "settleToken"}
  THEN arg[r] ELSE 0

\* With no failed operation the two ghosts are exactly what the fields say.
ExactInv(r) ==
  /\ pc[r] \in BeforeLive => tokenCharged[r] = TokenShare(r, tokenConsumed[r])
  /\ pc[r] \in AfterLive /\ r \notin settled /\ job[r] = "none" =>
       /\ charged[r] = preConsumedQuota[r] + InFlight(r)
       /\ tokenCharged[r] = TokenShare(r, preConsumedQuota[r])
  /\ r \in settled =>
       /\ charged[r] = actual[r]
       /\ tokenCharged[r] = TokenShare(r, actual[r])
  /\ job[r] = "funds" =>
       record[r] # "refunded" /\ charged[r] = preConsumedQuota[r]
  /\ job[r] \in {"mark", "extra"} => charged[r] = extraReserved[r]
  /\ job[r] \in {"token", "done"} => charged[r] = 0
  /\ job[r] \in {"funds", "mark", "extra", "token"} =>
       tokenCharged[r] = TokenShare(r, tokenConsumed[r])
  /\ job[r] = "done" => tokenCharged[r] = 0

\* What Reserve has taken from the wallet and not yet added to its sums.
Reserving(r) ==
  IF pc[r] \in {"reserveRead", "reserveWrite", "reserveUndo"}
  THEN arg[r] ELSE 0

\* WalletFunding.consumed is exactly what the wallet has paid, failures or
\* not, until the session is settled or refunded; Settle adds the difference
\* between the consumption and what it knows to be pre-consumed.
WalletInv(r) ==
  pc[r] \in AfterLive /\ OnWallet(r) =>
    /\ r \notin settled /\ job[r] \in {"none", "funds"} =>
         charged[r] = consumed[r]
                        + (IF pc[r] = "settleToken" THEN arg[r] ELSE 0)
    /\ r \in settled =>
         charged[r] = actual[r] + consumed[r] - preConsumedQuota[r]
    /\ consumed[r] >= preConsumedQuota[r] + Reserving(r)
    /\ r \notin faulty => consumed[r] = preConsumedQuota[r] + Reserving(r)

\* Failures leave at least as much charged as the fields say.
BoundInv(r) ==
  /\ charged[r] >= 0
  /\ tokenCharged[r] >= 0
  /\ pc[r] \in BeforeLive => tokenCharged[r] >= TokenShare(r, tokenConsumed[r])
  /\ pc[r] \in AfterLive /\ r \notin settled /\ job[r] = "none" =>
       /\ charged[r] >= preConsumedQuota[r] + InFlight(r)
       /\ tokenCharged[r] >= TokenShare(r, preConsumedQuota[r])
  /\ job[r] = "funds" /\ record[r] # "refunded" /\ ~OnWallet(r) =>
       charged[r] >= preConsumedQuota[r]
  /\ job[r] \in {"funds", "mark", "extra"} /\ ~OnWallet(r) =>
       charged[r] >= extraReserved[r]
  /\ job[r] \in {"funds", "mark", "extra", "token"} =>
       tokenCharged[r] >= TokenShare(r, tokenConsumed[r])

\* Nothing is held before a funding source is chosen, nor given to another.
HoldInv(r) ==
  /\ pc[r] \in BeforeLive => direct[r] = 0
  /\ pc[r] \in {"readToken", "takeToken", "takeFunds"} \union AfterLive =>
       funding[r] # "none"
  /\ OnWallet(r) => charged[r] >= 0

IInv ==
  /\ TypeOK
  /\ \A r \in Requests :
       /\ ControlInv(r)
       /\ WalletInv(r)
       /\ r \notin faulty => ExactInv(r)
       /\ "mark" \notin FaultKinds => BoundInv(r)
=============================================================================
