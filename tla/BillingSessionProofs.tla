------------------------ MODULE BillingSessionProofs ------------------------
(***************************************************************************)
(* IInv of BillingSession is inductive, and the safety properties of the   *)
(* billing session follow from it for any number of requests, tokens,      *)
(* quotas and failures.                                                    *)
(*                                                                         *)
(* The invariant is a conjunction over the requests and every action       *)
(* belongs to one request.  So each action has a lemma that says three     *)
(* things: the types are kept, the acting request's part of the invariant  *)
(* is re-established, and the variables of all others are untouched.       *)
(* Frame turns the last into their parts of the invariant.                 *)
(***************************************************************************)
EXTENDS BillingSession, FiniteSetTheorems, FunctionTheorems, TLAPS

(***************************************************************************)
(* A total, counted unit by unit: Units of BillingSession.                 *)
(***************************************************************************)

\* The units of one owner are as many as it holds.
LEMMA OwnUnits ==
  ASSUME NEW r, NEW n \in Nat
  PROVE  /\ IsFiniteSet({r} \X (1 .. n))
         /\ Cardinality({r} \X (1 .. n)) = n
<1> DEFINE f == [i \in 1 .. n |-> <<r, i>>]
<1>1. f \in Bijection(1 .. n, {r} \X (1 .. n))
  <2>1. f \in [1 .. n -> {r} \X (1 .. n)]
    OBVIOUS
  <2>2. \A i, j \in 1 .. n : f[i] = f[j] => i = j
    OBVIOUS
  <2>3. \A u \in {r} \X (1 .. n) : \E i \in 1 .. n : f[i] = u
    OBVIOUS
  <2>4. QED
    BY <2>1, <2>2, <2>3 DEF Bijection, Injection, Surjection, IsInjective
<1>2. IsFiniteSet(1 .. n) /\ Cardinality(1 .. n) = n
  BY FS_Interval
<1>3. ExistsBijection(1 .. n, {r} \X (1 .. n))
  BY <1>1 DEF ExistsBijection
<1>4. QED BY <1>2, <1>3, FS_Bijection

\* The others' units: what is left of all without those of the owner.
LEMMA OthersUnits ==
  ASSUME NEW S, NEW h \in [S -> Nat], NEW r \in S, IsFiniteSet(Units(h))
  PROVE  LET others == Units(h) \ ({r} \X (1 .. h[r])) IN
         /\ IsFiniteSet(others)
         /\ Cardinality(others) \in Nat
         /\ Cardinality(Units(h)) = Cardinality(others) + h[r]
<1> DEFINE own == {r} \X (1 .. h[r])
           others == Units(h) \ own
<1>1. own \subseteq Units(h)
  BY DEF Units
<1>2. IsFiniteSet(own) /\ Cardinality(own) = h[r]
  BY OwnUnits
<1>3. IsFiniteSet(others) /\ Cardinality(others) \in Nat
  BY FS_Difference, FS_CardinalityType
<1>4. others \cup own = Units(h) /\ others \cap own = {}
  BY <1>1
<1>5. Cardinality(Units(h)) = Cardinality(others) + Cardinality(own)
  <2>1. Cardinality(others \cup own)
          = Cardinality(others) + Cardinality(own) - Cardinality({})
    BY <1>2, <1>3, <1>4, FS_Union
  <2>2. Cardinality(own) \in Nat /\ Cardinality({}) = 0
    BY <1>2, FS_EmptySet
  <2>3. Cardinality(others \cup own) = Cardinality(Units(h))
    BY <1>4
  <2> HIDE DEF own, others
  <2>4. QED BY ONLY <2>1, <2>2, <2>3, <1>3
<1>6. QED BY <1>2, <1>3, <1>5

\* When one owner's holding changes the total changes by as much; it is
\* never less than what one owner holds.
LEMMA UnitsChange ==
  ASSUME NEW S, NEW h \in [S -> Nat], NEW k \in [S -> Nat], NEW r \in S,
         \A q \in S \ {r} : k[q] = h[q],
         IsFiniteSet(Units(h))
  PROVE  /\ IsFiniteSet(Units(k))
         /\ Cardinality(Units(k)) = Cardinality(Units(h)) + k[r] - h[r]
         /\ Cardinality(Units(h)) >= h[r]
<1> DEFINE others == Units(h) \ ({r} \X (1 .. h[r]))
           own == {r} \X (1 .. k[r])
<1>1. /\ IsFiniteSet(others)
      /\ Cardinality(others) \in Nat
      /\ Cardinality(Units(h)) = Cardinality(others) + h[r]
  BY OthersUnits
<1>2. others = UNION {{q} \X (1 .. h[q]) : q \in S \ {r}}
  BY DEF Units
<1>3. Units(k) = others \cup own
  <2>1. \A q \in S \ {r} : {q} \X (1 .. k[q]) = {q} \X (1 .. h[q])
    OBVIOUS
  <2>2. Units(k) = own \cup UNION {{q} \X (1 .. k[q]) : q \in S \ {r}}
    BY DEF Units
  <2>3. QED BY <1>2, <2>1, <2>2
<1>4. others \cap own = {}
  BY <1>2
<1>5. IsFiniteSet(own) /\ Cardinality(own) = k[r]
  BY OwnUnits
<1>6. /\ IsFiniteSet(Units(k))
      /\ Cardinality(Units(k))
           = Cardinality(others) + Cardinality(own) - Cardinality({})
  BY <1>1, <1>3, <1>4, <1>5, FS_Union
<1> HIDE DEF own, others
<1>7. QED BY <1>1, <1>5, <1>6, FS_EmptySet
-----------------------------------------------------------------------------
(***************************************************************************)
(* The inductive invariant, action by action                               *)
(***************************************************************************)
USE ConstantsAssumption
    DEF balances, intake, amounts, flags, session, turns, ghosts,
        Call, Goto, Succeeds, Fails, NestedFails, OnWallet,
        BeforeLive, AfterLive, SettleLocs, ReserveLocs, DirectLocs

\* The part of IInv about one request.
RequestInv(r) ==
  /\ ControlInv(r)
  /\ WalletInv(r)
  /\ r \notin faulty => ExactInv(r)
  /\ "mark" \notin FaultKinds => BoundInv(r)

\* A step leaves everything the invariant says about the request alone.
Same(r) ==
  /\ pc'[r] = pc[r] /\ arg'[r] = arg[r] /\ job'[r] = job[r]
  /\ record'[r] = record[r]
  /\ est'[r] = est[r] /\ userQuota'[r] = userQuota[r]
  /\ funding'[r] = funding[r]
  /\ preConsumedQuota'[r] = preConsumedQuota[r]
  /\ tokenConsumed'[r] = tokenConsumed[r]
  /\ extraReserved'[r] = extraReserved[r] /\ consumed'[r] = consumed[r]
  /\ actual'[r] = actual[r]
  /\ charged'[r] = charged[r] /\ tokenCharged'[r] = tokenCharged[r]
  /\ (r \in fundingSettled') <=> (r \in fundingSettled)
  /\ (r \in settled') <=> (r \in settled)
  /\ (r \in refunded') <=> (r \in refunded)
  /\ (r \in faulty') <=> (r \in faulty)

\* What transactions of the request may have read of the subscription.
SeenOK(r) == callSeen[r] \in SUBSET Nat /\ jobSeen[r] \in SUBSET Nat

\* A transfer keeps the balances in range: PostConsumeUserSubscriptionDelta
\* clamps at zero, the wallet may go negative.
LEMMA FundsType ==
  ASSUME BaseOK, NEW r \in Requests, SeenOK(r), NEW d \in Int,
         \/ TakesFunds(r, d, callSeen[r])
         \/ TakesFunds(r, d, jobSeen[r])
  PROVE  wallet' \in Int /\ subUsed' \in Nat
BY DEF BaseOK, SeenOK, TakesFunds, SubReads, SubAfter

\* So does a transfer of the token, which may go negative as well.
LEMMA TokenType ==
  ASSUME BaseOK, NEW r \in Requests, NEW d \in Int, TakesToken(r, d)
  PROVE  token' \in [Tokens -> Int]
BY DEF BaseOK, TakesToken

\* A new request (middleware, price helper) has charged nothing yet.
LEMMA StartInv ==
  ASSUME BaseOK, NEW r \in Requests, RequestInv(r), Start(r)
  PROVE  BaseOK' /\ RequestInv(r)' /\ \A q \in Requests \ {r} : Same(q)
<1> USE DEF RequestInv
<1>1. BaseOK'
  BY DEF BaseOK, AllPreferences, Locations, Start
<1>2. ControlInv(r)'
  BY DEF BaseOK, ControlInv, Amount, Start
<1>3. WalletInv(r)'
  BY DEF BaseOK, ControlInv, WalletInv, Reserving, Start
<1>4. r \notin faulty' => ExactInv(r)'
  BY DEF BaseOK, ControlInv, WalletInv, ExactInv, InFlight, Reserving,
         TokenShare, Amount, Locations, Start
<1>5. "mark" \notin FaultKinds => BoundInv(r)'
  BY DEF BaseOK, ControlInv, WalletInv, BoundInv, InFlight, Reserving,
         TokenShare, Amount, Locations, Start
<1>6. \A q \in Requests \ {r} : Same(q)
  BY DEF BaseOK, Same, Start
<1>7. QED BY <1>1, <1>2, <1>3, <1>4, <1>5, <1>6

\* Choosing a funding source in NewBillingSession charges nothing.
LEMMA ChooseFundingInv ==
  ASSUME BaseOK, NEW r \in Requests, RequestInv(r), ChooseFunding(r)
  PROVE  BaseOK' /\ RequestInv(r)' /\ \A q \in Requests \ {r} : Same(q)
<1> USE DEF RequestInv
<1>1. BaseOK'
  BY DEF BaseOK, Locations, ChooseFunding
<1>2. ControlInv(r)'
  BY DEF BaseOK, ControlInv, Amount, ChooseFunding
<1>3. WalletInv(r)'
  BY DEF BaseOK, ControlInv, WalletInv, Reserving, ChooseFunding
<1>4. r \notin faulty' => ExactInv(r)'
  BY DEF BaseOK, ControlInv, WalletInv, ExactInv, InFlight, Reserving,
         TokenShare, Amount, Locations, ChooseFunding
<1>5. "mark" \notin FaultKinds => BoundInv(r)'
  BY DEF BaseOK, ControlInv, WalletInv, BoundInv, InFlight, Reserving,
         TokenShare, Amount, Locations, ChooseFunding
<1>6. \A q \in Requests \ {r} : Same(q)
  BY DEF BaseOK, Same, ChooseFunding
<1>7. QED BY <1>1, <1>2, <1>3, <1>4, <1>5, <1>6

\* tryWallet only reads; what it saw covers the estimate.
LEMMA TryWalletInv ==
  ASSUME BaseOK, NEW r \in Requests, RequestInv(r), TryWallet(r)
  PROVE  BaseOK' /\ RequestInv(r)' /\ \A q \in Requests \ {r} : Same(q)
<1> USE DEF RequestInv
<1>1. BaseOK'
  BY DEF BaseOK, Locations, TryWallet
<1>2. ControlInv(r)'
  BY DEF BaseOK, ControlInv, Amount, TryWallet, WalletSuffices
<1>3. WalletInv(r)'
  BY DEF BaseOK, ControlInv, WalletInv, Reserving, TryWallet
<1>4. r \notin faulty' => ExactInv(r)'
  BY DEF BaseOK, ControlInv, WalletInv, ExactInv, InFlight, Reserving,
         TokenShare, Amount, Locations, TryWallet
<1>5. "mark" \notin FaultKinds => BoundInv(r)'
  BY DEF BaseOK, ControlInv, WalletInv, BoundInv, InFlight, Reserving,
         TokenShare, Amount, Locations, TryWallet
<1>6. \A q \in Requests \ {r} : Same(q)
  BY DEF BaseOK, Same, TryWallet
<1>7. QED BY <1>1, <1>2, <1>3, <1>4, <1>5, <1>6

\* A trusted session goes live with nothing pre-consumed.
LEMMA PreConsumeTokenReadInv ==
  ASSUME BaseOK, NEW r \in Requests, RequestInv(r), PreConsumeTokenRead(r)
  PROVE  BaseOK' /\ RequestInv(r)' /\ \A q \in Requests \ {r} : Same(q)
<1> USE DEF RequestInv
<1>1. BaseOK'
  BY DEF BaseOK, Locations, PreConsumeTokenRead, EffectiveQuota,
         ShouldTrust, Amount
<1>2. ControlInv(r)'
  BY DEF BaseOK, ControlInv, Amount, PreConsumeTokenRead, EffectiveQuota,
         ShouldTrust
<1>3. WalletInv(r)'
  BY DEF BaseOK, ControlInv, WalletInv, Reserving, PreConsumeTokenRead,
         EffectiveQuota, ShouldTrust, Amount
<1>4. r \notin faulty' => ExactInv(r)'
  BY DEF BaseOK, ControlInv, WalletInv, ExactInv, InFlight, Reserving,
         TokenShare, Amount, Locations, PreConsumeTokenRead, EffectiveQuota,
         ShouldTrust
<1>5. "mark" \notin FaultKinds => BoundInv(r)'
  BY DEF BaseOK, ControlInv, WalletInv, BoundInv, InFlight, Reserving,
         TokenShare, Amount, Locations, PreConsumeTokenRead, EffectiveQuota,
         ShouldTrust
<1>6. \A q \in Requests \ {r} : Same(q)
  BY DEF BaseOK, Same, PreConsumeTokenRead, EffectiveQuota, ShouldTrust,
         Amount
<1>7. QED BY <1>1, <1>2, <1>3, <1>4, <1>5, <1>6

\* tokenConsumed is what the token has paid, before the funds follow.
LEMMA PreConsumeTokenWriteInv ==
  ASSUME BaseOK, NEW r \in Requests, RequestInv(r), PreConsumeTokenWrite(r)
  PROVE  BaseOK' /\ RequestInv(r)' /\ \A q \in Requests \ {r} : Same(q)
<1> USE DEF RequestInv
<1>1. BaseOK'
  <2>1. token' \in [Tokens -> Int] /\ tokenCharged' \in [Requests -> Int]
    BY TokenType DEF BaseOK, PreConsumeTokenWrite, Amount, ChargeToken
  <2>2. /\ pc' \in [Requests -> Locations] /\ arg' \in [Requests -> Int]
        /\ tokenConsumed' \in [Requests -> Nat]
    BY DEF BaseOK, PreConsumeTokenWrite, Amount, Locations
  <2>3. QED
    BY <2>1, <2>2 DEF BaseOK, PreConsumeTokenWrite
<1>2. ControlInv(r)'
  BY DEF BaseOK, ControlInv, Amount, PreConsumeTokenWrite, ChargeToken
<1>3. WalletInv(r)'
  BY DEF BaseOK, ControlInv, WalletInv, Reserving, PreConsumeTokenWrite,
         Amount, ChargeToken
<1>4. r \notin faulty' => ExactInv(r)'
  BY DEF BaseOK, ControlInv, WalletInv, ExactInv, InFlight, Reserving,
         TokenShare, Amount, Locations, PreConsumeTokenWrite, ChargeToken
<1>5. "mark" \notin FaultKinds => BoundInv(r)'
  BY DEF BaseOK, ControlInv, WalletInv, BoundInv, InFlight, Reserving,
         TokenShare, Amount, Locations, PreConsumeTokenWrite, ChargeToken
<1>6. \A q \in Requests \ {r} : Same(q)
  BY DEF BaseOK, Same, PreConsumeTokenWrite, Amount, ChargeToken
<1>7. QED BY <1>1, <1>2, <1>3, <1>4, <1>5, <1>6

\* preConsume ends with funds and token both at the estimate.
LEMMA PreConsumeFundsInv ==
  ASSUME BaseOK, NEW r \in Requests, SeenOK(r), RequestInv(r),
         PreConsumeFunds(r)
  PROVE  BaseOK' /\ RequestInv(r)' /\ \A q \in Requests \ {r} : Same(q)
<1> USE DEF RequestInv
<1>1. BaseOK'
  <2>1. wallet' \in Int /\ subUsed' \in Nat /\ charged' \in [Requests -> Int]
    BY FundsType DEF BaseOK, PreConsumeFunds, Amount, Charge
  <2>2. /\ pc' \in [Requests -> Locations] /\ arg' \in [Requests -> Int]
        /\ consumed' \in [Requests -> Nat]
        /\ preConsumedQuota' \in [Requests -> Nat]
        /\ record' \in [Requests -> {"none", "consumed", "refunded"}]
    BY DEF BaseOK, PreConsumeFunds, Amount, Locations
  <2>3. QED
    BY <2>1, <2>2 DEF BaseOK, PreConsumeFunds
<1>2. ControlInv(r)'
  BY DEF BaseOK, ControlInv, Amount, PreConsumeFunds, Charge
<1>3. WalletInv(r)'
  BY DEF BaseOK, ControlInv, WalletInv, Reserving, PreConsumeFunds, Amount,
         Charge
<1>4. r \notin faulty' => ExactInv(r)'
  BY DEF BaseOK, ControlInv, WalletInv, ExactInv, InFlight, Reserving,
         TokenShare, Amount, Locations, PreConsumeFunds, Charge
<1>5. "mark" \notin FaultKinds => BoundInv(r)'
  BY DEF BaseOK, ControlInv, WalletInv, BoundInv, InFlight, Reserving,
         TokenShare, Amount, Locations, PreConsumeFunds, Charge
<1>6. \A q \in Requests \ {r} : Same(q)
  BY DEF BaseOK, Same, PreConsumeFunds, Amount, Charge
<1>7. QED BY <1>1, <1>2, <1>3, <1>4, <1>5, <1>6

\* preConsume's rollback leaves nothing taken from the token.
LEMMA RollbackTokenInv ==
  ASSUME BaseOK, NEW r \in Requests, RequestInv(r), RollbackToken(r)
  PROVE  BaseOK' /\ RequestInv(r)' /\ \A q \in Requests \ {r} : Same(q)
<1> USE DEF RequestInv
<1>1. BaseOK'
  BY TokenType DEF BaseOK, Locations, RollbackToken, ChargeToken
<1>2. ControlInv(r)'
  BY DEF BaseOK, ControlInv, Amount, RollbackToken, ChargeToken
<1>3. WalletInv(r)'
  BY DEF BaseOK, ControlInv, WalletInv, Reserving, RollbackToken,
         ChargeToken
<1>4. r \notin faulty' => ExactInv(r)'
  BY DEF BaseOK, ControlInv, WalletInv, ExactInv, InFlight, Reserving,
         TokenShare, Amount, Locations, RollbackToken, ChargeToken
<1>5. "mark" \notin FaultKinds => BoundInv(r)'
  BY DEF BaseOK, ControlInv, WalletInv, BoundInv, InFlight, Reserving,
         TokenShare, Amount, Locations, RollbackToken, ChargeToken
<1>6. \A q \in Requests \ {r} : Same(q)
  BY DEF BaseOK, Same, RollbackToken, ChargeToken
<1>7. QED BY <1>1, <1>2, <1>3, <1>4, <1>5, <1>6

\* The overflow check of subscription_first charges nothing.
LEMMA CheckOverflowInv ==
  ASSUME BaseOK, NEW r \in Requests, RequestInv(r), CheckOverflow(r)
  PROVE  BaseOK' /\ RequestInv(r)' /\ \A q \in Requests \ {r} : Same(q)
<1> USE DEF RequestInv
<1>1. BaseOK'
  <2>1. pc' \in [Requests -> Locations]
    BY DEF BaseOK, CheckOverflow, Locations
  <2>2. faulty' \subseteq Requests /\ faults' \in Nat
    BY DEF BaseOK, CheckOverflow
  <2>3. QED
    BY <2>1, <2>2 DEF BaseOK, CheckOverflow
<1>2. ControlInv(r)'
  BY DEF BaseOK, ControlInv, Amount, CheckOverflow
<1>3. WalletInv(r)'
  BY DEF BaseOK, ControlInv, WalletInv, Reserving, CheckOverflow
<1>4. r \notin faulty' => ExactInv(r)'
  BY DEF BaseOK, ControlInv, WalletInv, ExactInv, InFlight, Reserving,
         TokenShare, Amount, Locations, CheckOverflow
<1>5. "mark" \notin FaultKinds => BoundInv(r)'
  BY DEF BaseOK, ControlInv, WalletInv, BoundInv, InFlight, Reserving,
         TokenShare, Amount, Locations, CheckOverflow
<1>6. \A q \in Requests \ {r} : Same(q)
  BY DEF BaseOK, Same, CheckOverflow
<1>7. QED BY <1>1, <1>2, <1>3, <1>4, <1>5, <1>6

\* Settle begins with the delta that leads to the real consumption.
LEMMA SettleInv ==
  ASSUME BaseOK, NEW r \in Requests, RequestInv(r), Settle(r)
  PROVE  BaseOK' /\ RequestInv(r)' /\ \A q \in Requests \ {r} : Same(q)
<1> USE DEF RequestInv
<1>1. BaseOK'
  BY DEF BaseOK, Locations, Settle, SettleArgs
<1>2. ControlInv(r)'
  BY DEF BaseOK, ControlInv, Amount, Settle, SettleArgs
<1>3. WalletInv(r)'
  BY DEF BaseOK, ControlInv, WalletInv, Reserving, Settle, SettleArgs
<1>4. r \notin faulty' => ExactInv(r)'
  BY DEF BaseOK, ControlInv, WalletInv, ExactInv, InFlight, Reserving,
         TokenShare, Amount, Locations, Settle, SettleArgs
<1>5. "mark" \notin FaultKinds => BoundInv(r)'
  BY DEF BaseOK, ControlInv, WalletInv, BoundInv, InFlight, Reserving,
         TokenShare, Amount, Locations, Settle, SettleArgs
<1>6. \A q \in Requests \ {r} : Same(q)
  BY DEF BaseOK, Same, Settle, SettleArgs
<1>7. QED BY <1>1, <1>2, <1>3, <1>4, <1>5, <1>6

\* funding.Settle moves the funds by exactly that delta, or not at all.
LEMMA SettleFundsInv ==
  ASSUME BaseOK, NEW r \in Requests, SeenOK(r), RequestInv(r),
         SettleFunds(r)
  PROVE  BaseOK' /\ RequestInv(r)' /\ \A q \in Requests \ {r} : Same(q)
<1> USE DEF RequestInv
<1>1. BaseOK'
  <2>1. wallet' \in Int /\ subUsed' \in Nat /\ charged' \in [Requests -> Int]
    BY FundsType DEF BaseOK, SettleFunds, Charge
  <2>2. pc' \in [Requests -> Locations] /\ arg' \in [Requests -> Int]
    BY DEF BaseOK, SettleFunds, Locations
  <2>3. QED
    BY <2>1, <2>2 DEF BaseOK, SettleFunds
<1>2. ControlInv(r)'
  BY DEF BaseOK, ControlInv, Amount, SettleFunds, Charge
<1>3. WalletInv(r)'
  BY DEF BaseOK, ControlInv, WalletInv, Reserving, SettleFunds, Charge
<1>4. r \notin faulty' => ExactInv(r)'
  BY DEF BaseOK, ControlInv, WalletInv, ExactInv, InFlight, Reserving,
         TokenShare, Amount, Locations, SettleFunds, Charge
<1>5. "mark" \notin FaultKinds => BoundInv(r)'
  BY DEF BaseOK, ControlInv, WalletInv, BoundInv, InFlight, Reserving,
         TokenShare, Amount, Locations, SettleFunds, Charge
<1>6. \A q \in Requests \ {r} : Same(q)
  BY DEF BaseOK, Same, SettleFunds, Charge
<1>7. QED BY <1>1, <1>2, <1>3, <1>4, <1>5, <1>6

\* Settle's token step completes what the funds step began.
LEMMA SettleTokenInv ==
  ASSUME BaseOK, NEW r \in Requests, RequestInv(r), SettleToken(r)
  PROVE  BaseOK' /\ RequestInv(r)' /\ \A q \in Requests \ {r} : Same(q)
<1> USE DEF RequestInv
<1>1. BaseOK'
  BY TokenType DEF BaseOK, Locations, SettleToken, ChargeToken
<1>2. ControlInv(r)'
  BY DEF BaseOK, ControlInv, Amount, SettleToken, ChargeToken
<1>3. WalletInv(r)'
  BY DEF BaseOK, ControlInv, WalletInv, Reserving, SettleToken, ChargeToken
<1>4. r \notin faulty' => ExactInv(r)'
  BY DEF BaseOK, ControlInv, WalletInv, ExactInv, InFlight, Reserving,
         TokenShare, Amount, Locations, SettleToken, ChargeToken
<1>5. "mark" \notin FaultKinds => BoundInv(r)'
  BY DEF BaseOK, ControlInv, WalletInv, BoundInv, InFlight, Reserving,
         TokenShare, Amount, Locations, SettleToken, ChargeToken
<1>6. \A q \in Requests \ {r} : Same(q)
  BY DEF BaseOK, Same, SettleToken, ChargeToken
<1>7. QED BY <1>1, <1>2, <1>3, <1>4, <1>5, <1>6

\* Reserve begins with a positive delta.
LEMMA ReserveInv ==
  ASSUME BaseOK, NEW r \in Requests, RequestInv(r), Reserve(r)
  PROVE  BaseOK' /\ RequestInv(r)' /\ \A q \in Requests \ {r} : Same(q)
<1> USE DEF RequestInv
<1>1. BaseOK'
  BY DEF BaseOK, Locations, Reserve
<1>2. ControlInv(r)'
  BY DEF BaseOK, ControlInv, Amount, Reserve
<1>3. WalletInv(r)'
  BY DEF BaseOK, ControlInv, WalletInv, Reserving, Reserve
<1>4. r \notin faulty' => ExactInv(r)'
  BY DEF BaseOK, ControlInv, WalletInv, ExactInv, InFlight, Reserving,
         TokenShare, Amount, Locations, Reserve
<1>5. "mark" \notin FaultKinds => BoundInv(r)'
  BY DEF BaseOK, ControlInv, WalletInv, BoundInv, InFlight, Reserving,
         TokenShare, Amount, Locations, Reserve
<1>6. \A q \in Requests \ {r} : Same(q)
  BY DEF BaseOK, Same, Reserve
<1>7. QED BY <1>1, <1>2, <1>3, <1>4, <1>5, <1>6

\* reserveFunding books in the wallet what it takes from it.
LEMMA ReserveFundsInv ==
  ASSUME BaseOK, NEW r \in Requests, SeenOK(r), RequestInv(r),
         ReserveFunds(r)
  PROVE  BaseOK' /\ RequestInv(r)' /\ \A q \in Requests \ {r} : Same(q)
<1> USE DEF RequestInv
<1>1. BaseOK'
  <2>1. wallet' \in Int /\ subUsed' \in Nat /\ charged' \in [Requests -> Int]
    BY FundsType DEF BaseOK, ReserveFunds, Charge
  <2>2. /\ pc' \in [Requests -> Locations] /\ arg' \in [Requests -> Int]
        /\ consumed' \in [Requests -> Nat]
    BY DEF BaseOK, ReserveFunds, ControlInv, Locations
  <2>3. QED
    BY <2>1, <2>2 DEF BaseOK, ReserveFunds
<1>2. ControlInv(r)'
  BY DEF BaseOK, ControlInv, Amount, ReserveFunds, Charge
<1>3. WalletInv(r)'
  BY DEF BaseOK, ControlInv, WalletInv, Reserving, ReserveFunds, Charge
<1>4. r \notin faulty' => ExactInv(r)'
  BY DEF BaseOK, ControlInv, WalletInv, ExactInv, InFlight, Reserving,
         TokenShare, Amount, Locations, ReserveFunds, Charge
<1>5. "mark" \notin FaultKinds => BoundInv(r)'
  BY DEF BaseOK, ControlInv, WalletInv, BoundInv, InFlight, Reserving,
         TokenShare, Amount, Locations, ReserveFunds, Charge
<1>6. \A q \in Requests \ {r} : Same(q)
  BY DEF BaseOK, Same, ReserveFunds, Charge
<1>7. QED BY <1>1, <1>2, <1>3, <1>4, <1>5, <1>6

\* reserveToken reads; a playground request has no token to read.
LEMMA ReserveTokenReadInv ==
  ASSUME BaseOK, NEW r \in Requests, RequestInv(r), ReserveTokenRead(r)
  PROVE  BaseOK' /\ RequestInv(r)' /\ \A q \in Requests \ {r} : Same(q)
<1> USE DEF RequestInv
<1>1. BaseOK'
  <2>1. pc' \in [Requests -> Locations] /\ arg' \in [Requests -> Int]
    BY DEF BaseOK, ReserveTokenRead, Locations
  <2>2. /\ preConsumedQuota' \in [Requests -> Nat]
        /\ tokenConsumed' \in [Requests -> Nat]
        /\ extraReserved' \in [Requests -> Nat]
    BY DEF BaseOK, ReserveTokenRead, Reserved, ControlInv
  <2>3. QED
    BY <2>1, <2>2 DEF BaseOK, ReserveTokenRead, Reserved
<1>2. ControlInv(r)'
  BY DEF BaseOK, ControlInv, Amount, ReserveTokenRead, Reserved
<1>3. WalletInv(r)'
  BY DEF BaseOK, ControlInv, WalletInv, Reserving, ReserveTokenRead,
         Reserved
<1>4. r \notin faulty' => ExactInv(r)'
  BY DEF BaseOK, ControlInv, WalletInv, ExactInv, InFlight, Reserving,
         TokenShare, Amount, Locations, ReserveTokenRead, Reserved
<1>5. "mark" \notin FaultKinds => BoundInv(r)'
  BY DEF BaseOK, ControlInv, WalletInv, BoundInv, InFlight, Reserving,
         TokenShare, Amount, Locations, ReserveTokenRead, Reserved
<1>6. \A q \in Requests \ {r} : Same(q)
  BY DEF BaseOK, Same, ReserveTokenRead, Reserved
<1>7. QED BY <1>1, <1>2, <1>3, <1>4, <1>5, <1>6

\* Reserve ends with its three sums raised by what was taken.
LEMMA ReserveTokenWriteInv ==
  ASSUME BaseOK, NEW r \in Requests, RequestInv(r), ReserveTokenWrite(r)
  PROVE  BaseOK' /\ RequestInv(r)' /\ \A q \in Requests \ {r} : Same(q)
<1> USE DEF RequestInv
<1>1. BaseOK'
  <2>1. /\ pc' \in [Requests -> Locations] /\ arg' \in [Requests -> Int]
        /\ token' \in [Tokens -> Int] /\ tokenCharged' \in [Requests -> Int]
    BY TokenType DEF BaseOK, ReserveTokenWrite, ChargeToken, Locations
  <2>2. /\ preConsumedQuota' \in [Requests -> Nat]
        /\ tokenConsumed' \in [Requests -> Nat]
        /\ extraReserved' \in [Requests -> Nat]
    BY DEF BaseOK, ReserveTokenWrite, Reserved, ControlInv
  <2>3. QED
    BY <2>1, <2>2 DEF BaseOK, ReserveTokenWrite, Reserved
<1>2. ControlInv(r)'
  BY DEF BaseOK, ControlInv, Amount, ReserveTokenWrite, ChargeToken,
         Reserved
<1>3. WalletInv(r)'
  BY DEF BaseOK, ControlInv, WalletInv, Reserving, ReserveTokenWrite,
         ChargeToken, Reserved
<1>4. r \notin faulty' => ExactInv(r)'
  BY DEF BaseOK, ControlInv, WalletInv, ExactInv, InFlight, Reserving,
         TokenShare, Amount, Locations, ReserveTokenWrite, ChargeToken,
         Reserved
<1>5. "mark" \notin FaultKinds => BoundInv(r)'
  BY DEF BaseOK, ControlInv, WalletInv, BoundInv, InFlight, Reserving,
         TokenShare, Amount, Locations, ReserveTokenWrite, ChargeToken,
         Reserved
<1>6. \A q \in Requests \ {r} : Same(q)
  BY DEF BaseOK, Same, ReserveTokenWrite, ChargeToken, Reserved
<1>7. QED BY <1>1, <1>2, <1>3, <1>4, <1>5, <1>6

\* rollbackFundingReserve gives back what reserveFunding took.
LEMMA RollbackReserveInv ==
  ASSUME BaseOK, NEW r \in Requests, SeenOK(r), RequestInv(r),
         RollbackReserve(r)
  PROVE  BaseOK' /\ RequestInv(r)' /\ \A q \in Requests \ {r} : Same(q)
<1> USE DEF RequestInv
<1>1. BaseOK'
  <2>1. wallet' \in Int /\ subUsed' \in Nat /\ charged' \in [Requests -> Int]
    BY FundsType DEF BaseOK, RollbackReserve, Charge
  <2>2. /\ pc' \in [Requests -> Locations] /\ arg' \in [Requests -> Int]
        /\ consumed' \in [Requests -> Nat]
    BY DEF BaseOK, RollbackReserve, ControlInv, WalletInv, Reserving,
           Locations
  <2>3. QED
    BY <2>1, <2>2 DEF BaseOK, RollbackReserve
<1>2. ControlInv(r)'
  BY DEF BaseOK, ControlInv, Amount, RollbackReserve, Charge
<1>3. WalletInv(r)'
  BY DEF BaseOK, ControlInv, WalletInv, Reserving, RollbackReserve, Charge
<1>4. r \notin faulty' => ExactInv(r)'
  BY DEF BaseOK, ControlInv, WalletInv, ExactInv, InFlight, Reserving,
         TokenShare, Amount, Locations, RollbackReserve, Charge
<1>5. "mark" \notin FaultKinds => BoundInv(r)'
  BY DEF BaseOK, ControlInv, WalletInv, BoundInv, InFlight, Reserving,
         TokenShare, Amount, Locations, RollbackReserve, Charge
<1>6. \A q \in Requests \ {r} : Same(q)
  BY DEF BaseOK, Same, RollbackReserve, Charge
<1>7. QED BY <1>1, <1>2, <1>3, <1>4, <1>5, <1>6

\* Refund marks the session before its goroutine gives anything back.
LEMMA RefundInv ==
  ASSUME BaseOK, NEW r \in Requests, RequestInv(r), Refund(r)
  PROVE  BaseOK' /\ RequestInv(r)' /\ \A q \in Requests \ {r} : Same(q)
<1> USE DEF RequestInv
<1>1. BaseOK'
  BY DEF BaseOK, Locations, Refund, NeedsRefundLocked
<1>2. ControlInv(r)'
  BY DEF BaseOK, ControlInv, Amount, Refund, NeedsRefundLocked
<1>3. WalletInv(r)'
  BY DEF BaseOK, ControlInv, WalletInv, Reserving, Refund, NeedsRefundLocked
<1>4. r \notin faulty' => ExactInv(r)'
  BY DEF BaseOK, ControlInv, WalletInv, ExactInv, InFlight, Reserving,
         TokenShare, Amount, Locations, Refund, NeedsRefundLocked
<1>5. "mark" \notin FaultKinds => BoundInv(r)'
  BY DEF BaseOK, ControlInv, WalletInv, BoundInv, InFlight, Reserving,
         TokenShare, Amount, Locations, Refund, NeedsRefundLocked
<1>6. \A q \in Requests \ {r} : Same(q)
  BY DEF BaseOK, Same, Refund, NeedsRefundLocked
<1>7. QED BY <1>1, <1>2, <1>3, <1>4, <1>5, <1>6

\* WalletFunding.Refund gives back all the wallet has paid.
LEMMA RefundWalletInv ==
  ASSUME BaseOK, NEW r \in Requests, SeenOK(r), RequestInv(r),
         RefundWallet(r)
  PROVE  BaseOK' /\ RequestInv(r)' /\ \A q \in Requests \ {r} : Same(q)
<1> USE DEF RequestInv
<1>1. BaseOK'
  <2>1. wallet' \in Int /\ subUsed' \in Nat /\ charged' \in [Requests -> Int]
    BY FundsType DEF BaseOK, RefundWallet, Charge
  <2>2. /\ faults' \in Nat /\ faulty' \subseteq Requests
        /\ job' \in [Requests ->
                      {"none", "funds", "mark", "extra", "token", "done"}]
    BY DEF BaseOK, RefundWallet
  <2>3. QED
    BY <2>1, <2>2 DEF BaseOK, RefundWallet
<1>2. ControlInv(r)'
  BY DEF BaseOK, ControlInv, Amount, RefundWallet, Charge
<1>3. WalletInv(r)'
  BY DEF BaseOK, ControlInv, WalletInv, Reserving, RefundWallet, Charge
<1>4. r \notin faulty' => ExactInv(r)'
  BY DEF BaseOK, ControlInv, WalletInv, ExactInv, InFlight, Reserving,
         TokenShare, Amount, Locations, RefundWallet, Charge
<1>5. "mark" \notin FaultKinds => BoundInv(r)'
  BY DEF BaseOK, ControlInv, WalletInv, BoundInv, InFlight, Reserving,
         TokenShare, Amount, Locations, RefundWallet, Charge
<1>6. \A q \in Requests \ {r} : Same(q)
  BY DEF BaseOK, Same, RefundWallet, Charge
<1>7. QED BY <1>1, <1>2, <1>3, <1>4, <1>5, <1>6

\* An attempt of RefundSubscriptionPreConsume gives the record back once.
LEMMA RefundSubscriptionInv ==
  ASSUME BaseOK, NEW r \in Requests, SeenOK(r), RequestInv(r),
         RefundSubscription(r)
  PROVE  BaseOK' /\ RequestInv(r)' /\ \A q \in Requests \ {r} : Same(q)
<1> USE DEF RequestInv
<1>1. BaseOK'
  <2>1. wallet' \in Int /\ subUsed' \in Nat /\ charged' \in [Requests -> Int]
    BY FundsType DEF BaseOK, RefundSubscription, Charge
  <2>2. QED
    BY <2>1 DEF BaseOK, RefundSubscription, NextAttempt
<1>2. ControlInv(r)'
  BY DEF BaseOK, ControlInv, Amount, RefundSubscription, Charge, NextAttempt
<1>3. WalletInv(r)'
  BY DEF BaseOK, ControlInv, WalletInv, Reserving, RefundSubscription,
         Charge, NextAttempt
<1>4. r \notin faulty' => ExactInv(r)'
  BY DEF BaseOK, ControlInv, WalletInv, ExactInv, InFlight, Reserving,
         TokenShare, Amount, Locations, RefundSubscription, Charge,
         NextAttempt
<1>5. "mark" \notin FaultKinds => BoundInv(r)'
  BY DEF BaseOK, ControlInv, WalletInv, BoundInv, InFlight, Reserving,
         TokenShare, Amount, Locations, RefundSubscription, Charge,
         NextAttempt
<1>6. \A q \in Requests \ {r} : Same(q)
  BY DEF BaseOK, Same, RefundSubscription, Charge, NextAttempt
<1>7. QED BY <1>1, <1>2, <1>3, <1>4, <1>5, <1>6

\* The saved record stops a later attempt.
LEMMA MarkRefundedInv ==
  ASSUME BaseOK, NEW r \in Requests, RequestInv(r), MarkRefunded(r)
  PROVE  BaseOK' /\ RequestInv(r)' /\ \A q \in Requests \ {r} : Same(q)
<1> USE DEF RequestInv
<1>1. BaseOK'
  BY DEF BaseOK, Locations, MarkRefunded, NextAttempt
<1>2. ControlInv(r)'
  BY DEF BaseOK, ControlInv, Amount, MarkRefunded, NextAttempt
<1>3. WalletInv(r)'
  BY DEF BaseOK, ControlInv, WalletInv, Reserving, MarkRefunded, NextAttempt
<1>4. r \notin faulty' => ExactInv(r)'
  BY DEF BaseOK, ControlInv, WalletInv, ExactInv, InFlight, Reserving,
         TokenShare, Amount, Locations, MarkRefunded, NextAttempt
<1>5. "mark" \notin FaultKinds => BoundInv(r)'
  BY DEF BaseOK, ControlInv, WalletInv, BoundInv, InFlight, Reserving,
         TokenShare, Amount, Locations, MarkRefunded, NextAttempt
<1>6. \A q \in Requests \ {r} : Same(q)
  BY DEF BaseOK, Same, MarkRefunded, NextAttempt
<1>7. QED BY <1>1, <1>2, <1>3, <1>4, <1>5, <1>6

\* The goroutine gives back what Reserve took from a subscription.
LEMMA RefundExtraInv ==
  ASSUME BaseOK, NEW r \in Requests, SeenOK(r), RequestInv(r),
         RefundExtra(r)
  PROVE  BaseOK' /\ RequestInv(r)' /\ \A q \in Requests \ {r} : Same(q)
<1> USE DEF RequestInv
<1>1. BaseOK'
  BY FundsType DEF BaseOK, ControlInv, Locations, RefundExtra, Charge
<1>2. ControlInv(r)'
  BY DEF BaseOK, ControlInv, Amount, RefundExtra, Charge
<1>3. WalletInv(r)'
  BY DEF BaseOK, ControlInv, WalletInv, Reserving, RefundExtra, Charge
<1>4. r \notin faulty' => ExactInv(r)'
  BY DEF BaseOK, ControlInv, WalletInv, ExactInv, InFlight, Reserving,
         TokenShare, Amount, Locations, RefundExtra, Charge
<1>5. "mark" \notin FaultKinds => BoundInv(r)'
  BY DEF BaseOK, ControlInv, WalletInv, BoundInv, InFlight, Reserving,
         TokenShare, Amount, Locations, RefundExtra, Charge
<1>6. \A q \in Requests \ {r} : Same(q)
  BY DEF BaseOK, Same, RefundExtra, Charge
<1>7. QED BY <1>1, <1>2, <1>3, <1>4, <1>5, <1>6

\* The goroutine ends with nothing taken from the token.
LEMMA RefundTokenInv ==
  ASSUME BaseOK, NEW r \in Requests, RequestInv(r), RefundToken(r)
  PROVE  BaseOK' /\ RequestInv(r)' /\ \A q \in Requests \ {r} : Same(q)
<1> USE DEF RequestInv
<1>1. BaseOK'
  BY TokenType DEF BaseOK, Locations, RefundToken, ChargeToken
<1>2. ControlInv(r)'
  BY DEF BaseOK, ControlInv, Amount, RefundToken, ChargeToken
<1>3. WalletInv(r)'
  BY DEF BaseOK, ControlInv, WalletInv, Reserving, RefundToken, ChargeToken
<1>4. r \notin faulty' => ExactInv(r)'
  BY DEF BaseOK, ControlInv, WalletInv, ExactInv, InFlight, Reserving,
         TokenShare, Amount, Locations, RefundToken, ChargeToken
<1>5. "mark" \notin FaultKinds => BoundInv(r)'
  BY DEF BaseOK, ControlInv, WalletInv, BoundInv, InFlight, Reserving,
         TokenShare, Amount, Locations, RefundToken, ChargeToken
<1>6. \A q \in Requests \ {r} : Same(q)
  BY DEF BaseOK, Same, RefundToken, ChargeToken
<1>7. QED BY <1>1, <1>2, <1>3, <1>4, <1>5, <1>6

\* A realtime turn (PreWssConsumeQuota) is charged past the session.
LEMMA RealtimeTurnInv ==
  ASSUME BaseOK, NEW r \in Requests, RequestInv(r), RealtimeTurn(r)
  PROVE  BaseOK' /\ RequestInv(r)' /\ \A q \in Requests \ {r} : Same(q)
<1> USE DEF RequestInv
<1>1. BaseOK'
  BY DEF BaseOK, Locations, RealtimeTurn
<1>2. ControlInv(r)'
  BY DEF BaseOK, ControlInv, Amount, RealtimeTurn
<1>3. WalletInv(r)'
  BY DEF BaseOK, ControlInv, WalletInv, Reserving, RealtimeTurn
<1>4. r \notin faulty' => ExactInv(r)'
  BY DEF BaseOK, ControlInv, WalletInv, ExactInv, InFlight, Reserving,
         TokenShare, Amount, Locations, RealtimeTurn
<1>5. "mark" \notin FaultKinds => BoundInv(r)'
  BY DEF BaseOK, ControlInv, WalletInv, BoundInv, InFlight, Reserving,
         TokenShare, Amount, Locations, RealtimeTurn
<1>6. \A q \in Requests \ {r} : Same(q)
  BY DEF BaseOK, Same, RealtimeTurn
<1>7. QED BY <1>1, <1>2, <1>3, <1>4, <1>5, <1>6

\* The violation fee is charged past the session.
LEMMA ChargeViolationFeeInv ==
  ASSUME BaseOK, NEW r \in Requests, RequestInv(r), ChargeViolationFee(r)
  PROVE  BaseOK' /\ RequestInv(r)' /\ \A q \in Requests \ {r} : Same(q)
<1> USE DEF RequestInv
<1>1. BaseOK'
  BY DEF BaseOK, Locations, ChargeViolationFee, NeedsRefundLocked
<1>2. ControlInv(r)'
  BY DEF BaseOK, ControlInv, Amount, ChargeViolationFee, NeedsRefundLocked
<1>3. WalletInv(r)'
  BY DEF BaseOK, ControlInv, WalletInv, Reserving, ChargeViolationFee,
         NeedsRefundLocked
<1>4. r \notin faulty' => ExactInv(r)'
  BY DEF BaseOK, ControlInv, WalletInv, ExactInv, InFlight, Reserving,
         TokenShare, Amount, Locations, ChargeViolationFee,
         NeedsRefundLocked
<1>5. "mark" \notin FaultKinds => BoundInv(r)'
  BY DEF BaseOK, ControlInv, WalletInv, BoundInv, InFlight, Reserving,
         TokenShare, Amount, Locations, ChargeViolationFee,
         NeedsRefundLocked
<1>6. \A q \in Requests \ {r} : Same(q)
  BY DEF BaseOK, Same, ChargeViolationFee, NeedsRefundLocked
<1>7. QED BY <1>1, <1>2, <1>3, <1>4, <1>5, <1>6

\* PostConsumeQuota leaves what the session has charged alone.
LEMMA DirectFundsInv ==
  ASSUME BaseOK, NEW r \in Requests, SeenOK(r), RequestInv(r),
         DirectFunds(r)
  PROVE  BaseOK' /\ RequestInv(r)' /\ \A q \in Requests \ {r} : Same(q)
<1> USE DEF RequestInv
<1>1. BaseOK'
  <2>1. wallet' \in Int /\ subUsed' \in Nat
    BY FundsType DEF BaseOK, DirectFunds
  <2>2. /\ pc' \in [Requests -> Locations] /\ arg' \in [Requests -> Int]
        /\ direct' \in [Requests -> Nat]
    BY DEF BaseOK, DirectFunds, ControlInv, AfterDirect, Locations
  <2>3. QED
    BY <2>1, <2>2 DEF BaseOK, DirectFunds
<1>2. ControlInv(r)'
  BY DEF BaseOK, ControlInv, Amount, DirectFunds, AfterDirect
<1>3. WalletInv(r)'
  BY DEF BaseOK, ControlInv, WalletInv, Reserving, DirectFunds, AfterDirect
<1>4. r \notin faulty' => ExactInv(r)'
  BY DEF BaseOK, ControlInv, WalletInv, ExactInv, InFlight, Reserving,
         TokenShare, Amount, Locations, DirectFunds, AfterDirect
<1>5. "mark" \notin FaultKinds => BoundInv(r)'
  BY DEF BaseOK, ControlInv, WalletInv, BoundInv, InFlight, Reserving,
         TokenShare, Amount, Locations, DirectFunds, AfterDirect
<1>6. \A q \in Requests \ {r} : Same(q)
  BY DEF BaseOK, Same, DirectFunds, AfterDirect
<1>7. QED BY <1>1, <1>2, <1>3, <1>4, <1>5, <1>6

\* PostConsumeQuota leaves what the session has charged alone.
LEMMA DirectTokenInv ==
  ASSUME BaseOK, NEW r \in Requests, RequestInv(r), DirectToken(r)
  PROVE  BaseOK' /\ RequestInv(r)' /\ \A q \in Requests \ {r} : Same(q)
<1> USE DEF RequestInv
<1>1. BaseOK'
  BY TokenType DEF BaseOK, Locations, DirectToken, AfterDirect
<1>2. ControlInv(r)'
  BY DEF BaseOK, ControlInv, Amount, DirectToken, AfterDirect
<1>3. WalletInv(r)'
  BY DEF BaseOK, ControlInv, WalletInv, Reserving, DirectToken, AfterDirect
<1>4. r \notin faulty' => ExactInv(r)'
  BY DEF BaseOK, ControlInv, WalletInv, ExactInv, InFlight, Reserving,
         TokenShare, Amount, Locations, DirectToken, AfterDirect
<1>5. "mark" \notin FaultKinds => BoundInv(r)'
  BY DEF BaseOK, ControlInv, WalletInv, BoundInv, InFlight, Reserving,
         TokenShare, Amount, Locations, DirectToken, AfterDirect
<1>6. \A q \in Requests \ {r} : Same(q)
  BY DEF BaseOK, Same, DirectToken, AfterDirect
<1>7. QED BY <1>1, <1>2, <1>3, <1>4, <1>5, <1>6

\* A step that does not touch a request keeps that request's invariant.
LEMMA Frame ==
  ASSUME BaseOK, NEW r \in Requests, RequestInv(r), Same(r)
  PROVE  RequestInv(r)'
<1>1. ControlInv(r)'
  BY DEF RequestInv, Same, ControlInv, Amount
<1>2. WalletInv(r)'
  BY DEF RequestInv, Same, WalletInv, Reserving
<1>3. r \notin faulty' => ExactInv(r)'
  BY DEF RequestInv, Same, ExactInv, InFlight, TokenShare
<1>4. "mark" \notin FaultKinds => BoundInv(r)'
  BY DEF RequestInv, Same, BoundInv, InFlight, TokenShare
<1>5. QED BY <1>1, <1>2, <1>3, <1>4 DEF RequestInv

\* IInv speaks of each request by itself.
LEMMA IInvIsPerRequest == IInv <=> TypeOK /\ \A r \in Requests : RequestInv(r)
BY DEF IInv, RequestInv

\* Before any request has been billed the invariant holds.
LEMMA InitInv == Init => IInv
<1> SUFFICES ASSUME Init PROVE IInv
  OBVIOUS
<1>1. TypeOK
  BY DEF Init, TypeOK, BaseOK, Remembered, Locations, AllPreferences
<1>2. ASSUME NEW r \in Requests PROVE RequestInv(r)
  BY DEF Init, RequestInv, ControlInv, WalletInv, ExactInv, BoundInv,
         TokenShare
<1>3. QED BY <1>1, <1>2, IInvIsPerRequest

\* Whatever step a request takes, it re-establishes its own invariant and
\* leaves the others' variables alone.
LEMMA StepInv ==
  ASSUME TypeOK, NEW r \in Requests, RequestInv(r),
         PreConsumeStep(r) \/ CallStep(r) \/ JobStep(r) \/ ClientStep(r)
  PROVE  BaseOK' /\ RequestInv(r)' /\ \A q \in Requests \ {r} : Same(q)
<1>0. BaseOK /\ SeenOK(r)
  BY DEF TypeOK, SeenOK
<1>1. CASE PreConsumeStep(r)
  BY <1>0, <1>1, ChooseFundingInv, TryWalletInv, PreConsumeTokenReadInv,
     PreConsumeTokenWriteInv, PreConsumeFundsInv, RollbackTokenInv,
     CheckOverflowInv DEF PreConsumeStep
<1>2. CASE CallStep(r)
  BY <1>0, <1>2, SettleFundsInv, SettleTokenInv, ReserveFundsInv,
     ReserveTokenReadInv, ReserveTokenWriteInv, RollbackReserveInv,
     DirectFundsInv, DirectTokenInv DEF CallStep
<1>3. CASE JobStep(r)
  BY <1>0, <1>3, RefundWalletInv, RefundSubscriptionInv, MarkRefundedInv,
     RefundExtraInv, RefundTokenInv DEF JobStep
<1>4. CASE ClientStep(r)
  BY <1>0, <1>4, StartInv, SettleInv, ReserveInv, RefundInv, RealtimeTurnInv,
     ChargeViolationFeeInv DEF ClientStep
<1>5. QED BY <1>1, <1>2, <1>3, <1>4

\* What is remembered of the subscription's row are values it has had.
LEMMA ObserveType ==
  ASSUME TypeOK, BaseOK', Observe
  PROVE  TypeOK'
<1>1. Remembered(subUsed') \in SUBSET Nat
  BY DEF BaseOK, Remembered
<1>2. callSeen' \in [Requests -> SUBSET Nat]
  BY <1>1 DEF TypeOK, Observe
<1>3. jobSeen' \in [Requests -> SUBSET Nat]
  BY <1>1 DEF TypeOK, Observe
<1>4. QED BY <1>2, <1>3 DEF TypeOK

\* Every step, of any handler or goroutine, preserves the invariant.
LEMMA NextInv == IInv /\ [Next]_vars => IInv'
<1> SUFFICES ASSUME IInv, [Next]_vars PROVE IInv'
  OBVIOUS
<1>0. TypeOK /\ \A r \in Requests : RequestInv(r)
  BY IInvIsPerRequest
<1>1. ASSUME NEW r \in Requests, Observe,
             PreConsumeStep(r) \/ CallStep(r) \/ JobStep(r) \/ ClientStep(r)
      PROVE  IInv'
  <2>1. BaseOK' /\ RequestInv(r)' /\ \A q \in Requests \ {r} : Same(q)
    BY <1>0, <1>1, StepInv
  <2>2. TypeOK'
    BY <1>0, <1>1, <2>1, ObserveType
  <2>3. ASSUME NEW q \in Requests PROVE RequestInv(q)'
    BY <1>0, <2>1, Frame DEF TypeOK
  <2>4. QED BY <2>2, <2>3 DEF IInv, RequestInv
<1>2. CASE ExpireSubscription /\ Observe
  <2>1. BaseOK'
    BY <1>0, <1>2 DEF TypeOK, BaseOK, ExpireSubscription
  <2>2. TypeOK'
    BY <1>0, <1>2, <2>1, ObserveType
  <2>3. ASSUME NEW q \in Requests PROVE RequestInv(q)'
    <3>1. Same(q)
      BY <1>2 DEF Same, ExpireSubscription
    <3>2. QED BY <3>1, <1>0, Frame DEF TypeOK
  <2>4. QED BY <2>2, <2>3 DEF IInv, RequestInv
<1>3. CASE UNCHANGED vars
  <2>1. TypeOK'
    BY <1>0, <1>3 DEF TypeOK, BaseOK, vars, seen
  <2>2. ASSUME NEW q \in Requests PROVE RequestInv(q)'
    <3>1. Same(q)
      BY <1>3 DEF Same, vars
    <3>2. QED BY <3>1, <1>0, Frame DEF TypeOK
  <2>3. QED BY <2>1, <2>2 DEF IInv, RequestInv
<1>4. QED BY <1>1, <1>2, <1>3 DEF Next, Step

\* The inductive invariant holds in every reachable state.
THEOREM SpecImpliesIInv == Spec => []IInv
BY InitInv, NextInv, PTL DEF Spec

\* TypeOK: the session's amounts never become negative.
THEOREM TypeCorrect == Spec => []TypeOK
<1>1. IInv => TypeOK BY DEF IInv
<1>2. QED BY <1>1, SpecImpliesIInv, PTL

\* A settled request has paid, from its funding source and its token, the
\* real consumption (BillingSession.Settle).
THEOREM SettledPaysActual == Spec => []SettledNet
<1>1. IInv => SettledNet
  BY DEF IInv, ExactInv, SettledNet
<1>2. QED BY <1>1, SpecImpliesIInv, PTL

\* A request turned away by NewBillingSession, or refunded, has paid nothing.
THEOREM FailedIsFree == Spec => []FailedPaysNothing
<1>1. IInv => FailedPaysNothing
  BY DEF IInv, TypeOK, BaseOK, ExactInv, ControlInv, FailedPaysNothing,
         TokenShare
<1>2. QED BY <1>1, SpecImpliesIInv, PTL

\* No session is both settled and refunded.
THEOREM SettleExcludesRefund == Spec => []SettledXorRefunded
<1>1. IInv => SettledXorRefunded
  BY DEF IInv, ControlInv, SettledXorRefunded
<1>2. QED BY <1>1, SpecImpliesIInv, PTL

\* Unless the save of a refund record fails after the refund it records has
\* been committed, no failure ever gives back more than was taken.
THEOREM NoOverRefund ==
  ASSUME "mark" \notin FaultKinds
  PROVE  Spec => []NeverOverRefunded
<1>1. IInv => NeverOverRefunded
  BY DEF IInv, BoundInv, NeverOverRefunded
<1>2. QED BY <1>1, SpecImpliesIInv, PTL

\* A step of a settled request moves none of what it paid: every action that
\* transfers belongs to a request that is not settled.
LEMMA SettledStep ==
  ASSUME TypeOK, NEW r \in Requests, RequestInv(r), r \in settled,
         PreConsumeStep(r) \/ CallStep(r) \/ JobStep(r) \/ ClientStep(r)
  PROVE  charged'[r] = charged[r] /\ tokenCharged'[r] = tokenCharged[r]
<1>0. /\ pc[r] \notin BeforeLive /\ pc[r] \notin SettleLocs
      /\ pc[r] \notin ReserveLocs /\ job[r] = "none"
  BY DEF RequestInv, ControlInv
<1>1. CASE PreConsumeStep(r)
  BY <1>0, <1>1 DEF PreConsumeStep, ChooseFunding, TryWallet,
                    PreConsumeTokenRead, PreConsumeTokenWrite,
                    PreConsumeFunds, RollbackToken, CheckOverflow
<1>2. CASE CallStep(r)
  BY <1>0, <1>2 DEF CallStep, SettleFunds, SettleToken, ReserveFunds,
                    ReserveTokenRead, ReserveTokenWrite, RollbackReserve,
                    DirectFunds, DirectToken
<1>3. CASE JobStep(r)
  BY <1>0, <1>3 DEF JobStep, RefundWallet, RefundSubscription, MarkRefunded,
                    RefundExtra, RefundToken
<1>4. CASE ClientStep(r)
  BY <1>0, <1>4 DEF ClientStep, Start, Settle, Reserve, Refund,
                    RealtimeTurn, ChargeViolationFee
<1>5. QED BY <1>1, <1>2, <1>3, <1>4

\* What a settled request has paid never changes again: neither a second
\* Settle nor a late Refund reaches its balances.
THEOREM SettlementIsFinal == Spec => SettledIsFinal
<1>1. IInv /\ [Next]_vars =>
        [\A r \in Requests : r \in settled =>
           /\ charged'[r] = charged[r]
           /\ tokenCharged'[r] = tokenCharged[r]]_vars
  <2> SUFFICES ASSUME IInv, [Next]_vars, NEW r \in Requests, r \in settled
               PROVE  /\ charged'[r] = charged[r]
                      /\ tokenCharged'[r] = tokenCharged[r]
    OBVIOUS
  <2>0. TypeOK /\ \A q \in Requests : RequestInv(q)
    BY IInvIsPerRequest
  <2>1. ASSUME NEW q \in Requests,
               PreConsumeStep(q) \/ CallStep(q) \/ JobStep(q) \/ ClientStep(q)
        PROVE  charged'[r] = charged[r] /\ tokenCharged'[r] = tokenCharged[r]
    <3>1. CASE q = r BY <2>0, <2>1, <3>1, SettledStep
    <3>2. CASE q # r BY <2>0, <2>1, <3>2, StepInv DEF Same
    <3>3. QED BY <3>1, <3>2
  <2>2. CASE ExpireSubscription \/ UNCHANGED vars
    BY <2>2 DEF ExpireSubscription, vars
  <2>3. QED BY <2>1, <2>2 DEF Next, Step
<1>2. QED BY <1>1, SpecImpliesIInv, PTL DEF Spec, SettledIsFinal

\* A request can overdraw the wallet only when its balance has fallen since
\* tryWallet read it: without a concurrent request the check is enough.
THEOREM OverdraftOnlyByRace == Spec => OverdraftNeedsRace
<1>1. IInv /\ [Next]_vars =>
        [\A r \in Requests :
           (/\ pc[r] = "takeFunds" /\ pc'[r] = "live" /\ OnWallet(r)
            /\ wallet' < 0) => wallet < userQuota[r]]_vars
  <2> SUFFICES ASSUME IInv, [Next]_vars, NEW r \in Requests,
                      pc[r] = "takeFunds", pc'[r] = "live", OnWallet(r),
                      wallet' < 0
               PROVE  wallet < userQuota[r]
    OBVIOUS
  <2>0. TypeOK /\ \A q \in Requests : RequestInv(q)
    BY IInvIsPerRequest
  <2>1. userQuota[r] >= est[r]
    BY <2>0 DEF RequestInv, ControlInv
  <2>2. ASSUME NEW q \in Requests,
               PreConsumeStep(q) \/ CallStep(q) \/ JobStep(q) \/ ClientStep(q)
        PROVE  q = r
    BY <2>0, <2>2, StepInv DEF Same
  <2>3. PreConsumeStep(r) \/ CallStep(r) \/ JobStep(r) \/ ClientStep(r)
    BY <2>2 DEF Next, Step, ExpireSubscription, vars
  <2>4. PreConsumeFunds(r)
    <3>1. CASE PreConsumeStep(r)
      BY <3>1 DEF PreConsumeStep, ChooseFunding, TryWallet,
                  PreConsumeTokenRead, PreConsumeTokenWrite, RollbackToken,
                  CheckOverflow
    <3>2. CASE CallStep(r)
      BY <3>2 DEF CallStep, SettleFunds, SettleToken, ReserveFunds,
                  ReserveTokenRead, ReserveTokenWrite, RollbackReserve,
                  DirectFunds, DirectToken
    <3>3. CASE JobStep(r)
      BY <3>3, <2>0 DEF JobStep, RefundWallet, RefundSubscription,
                        MarkRefunded, RefundExtra, RefundToken
    <3>4. CASE ClientStep(r)
      BY <3>4 DEF ClientStep, Start, Settle, Reserve, Refund, RealtimeTurn,
                  ChargeViolationFee
    <3>5. QED BY <2>3, <3>1, <3>2, <3>3, <3>4
  <2>5. wallet' = wallet - est[r]
    BY <2>4, <2>0 DEF PreConsumeFunds, TakesFunds, Amount, TypeOK,
                      BaseOK
  <2>6. QED BY <2>0, <2>1, <2>5 DEF TypeOK, BaseOK
<1>2. QED BY <1>1, SpecImpliesIInv, PTL DEF Spec, OverdraftNeedsRace
-----------------------------------------------------------------------------
(***************************************************************************)
(* The funding sources add up.  A step either transfers nothing, or takes  *)
(* an amount from the source of the acting request and accounts for it;    *)
(* what the others hold is untouched (NextHolds).  So the total moves with *)
(* the source (UnitsChange, HeldMoves).                                    *)
(***************************************************************************)

\* A step of the request transfers nothing, and changes its funding source
\* only when nothing is held ...
Rests(r) ==
  /\ wallet' = wallet /\ subUsed' = subUsed
  /\ charged'[r] = charged[r] /\ direct'[r] = direct[r]
  /\ funding'[r] = funding[r] \/ (charged[r] = 0 /\ direct[r] = 0)

\* ... or takes d from its source, which it has chosen before and keeps, and
\* accounts for d, in the session or past it.
Transfers(r, d) ==
  /\ \/ TakesFunds(r, d, callSeen[r])
     \/ TakesFunds(r, d, jobSeen[r])
  /\ funding[r] # "none" /\ funding'[r] = funding[r]
  /\ charged'[r] + direct'[r] = charged[r] + direct[r] + d

\* preConsume, its rollback and the fallback to the wallet.
LEMMA PreConsumeMoves ==
  ASSUME BaseOK, NEW r \in Requests, RequestInv(r), HoldInv(r),
         PreConsumeStep(r)
  PROVE  Rests(r) \/ \E d \in Int : Transfers(r, d)
<1> USE DEF RequestInv
<1>1. CASE ChooseFunding(r)
  BY <1>1 DEF BaseOK, ControlInv, HoldInv, Rests, ChooseFunding
<1>2. CASE TryWallet(r)
  BY <1>2 DEF BaseOK, ControlInv, HoldInv, Rests, TryWallet
<1>3. CASE PreConsumeTokenRead(r)
  BY <1>3 DEF BaseOK, Rests, PreConsumeTokenRead
<1>4. CASE PreConsumeTokenWrite(r)
  BY <1>4 DEF BaseOK, Rests, PreConsumeTokenWrite
<1>5. CASE PreConsumeFunds(r)
  <2>1. Amount(r) \in Int
    BY DEF BaseOK, Amount
  <2>2. CASE wallet' = wallet /\ subUsed' = subUsed /\ charged' = charged
    BY <1>5, <2>2 DEF Rests, PreConsumeFunds
  <2>3. CASE TakesFunds(r, Amount(r), callSeen[r]) /\ Charge(r, Amount(r))
    BY <1>5, <2>1, <2>3 DEF BaseOK, HoldInv, Transfers, Charge,
                            PreConsumeFunds
  <2>4. QED BY <1>5, <2>2, <2>3 DEF PreConsumeFunds
<1>6. CASE RollbackToken(r)
  BY <1>6 DEF BaseOK, ControlInv, HoldInv, Rests, RollbackToken
<1>7. CASE CheckOverflow(r)
  BY <1>7 DEF BaseOK, Rests, CheckOverflow
<1>8. QED
  BY <1>1, <1>2, <1>3, <1>4, <1>5, <1>6, <1>7 DEF PreConsumeStep

\* The calls of a live session and what is charged past it.
LEMMA CallMoves ==
  ASSUME BaseOK, NEW r \in Requests, HoldInv(r), CallStep(r)
  PROVE  Rests(r) \/ \E d \in Int : Transfers(r, d)
<1>0. arg[r] \in Int /\ -arg[r] \in Int
  BY DEF BaseOK
<1>1. CASE SettleFunds(r)
  <2>1. CASE wallet' = wallet /\ subUsed' = subUsed /\ charged' = charged
    BY <1>1, <2>1 DEF Rests, SettleFunds
  <2>2. CASE TakesFunds(r, arg[r], callSeen[r]) /\ Charge(r, arg[r])
    BY <1>0, <1>1, <2>2 DEF BaseOK, HoldInv, Transfers, Charge, SettleFunds
  <2>3. QED BY <1>1, <2>1, <2>2 DEF SettleFunds
<1>2. CASE ReserveFunds(r)
  <2>1. CASE wallet' = wallet /\ subUsed' = subUsed /\ charged' = charged
    BY <1>2, <2>1 DEF Rests, ReserveFunds
  <2>2. CASE TakesFunds(r, arg[r], callSeen[r]) /\ Charge(r, arg[r])
    BY <1>0, <1>2, <2>2 DEF BaseOK, HoldInv, Transfers, Charge, ReserveFunds
  <2>3. QED BY <1>2, <2>1, <2>2 DEF ReserveFunds
<1>3. CASE RollbackReserve(r)
  <2>1. CASE wallet' = wallet /\ subUsed' = subUsed /\ charged' = charged
    BY <1>3, <2>1 DEF Rests, RollbackReserve
  <2>2. CASE TakesFunds(r, -arg[r], callSeen[r]) /\ Charge(r, -arg[r])
    BY <1>0, <1>3, <2>2 DEF BaseOK, HoldInv, Transfers, Charge,
                            RollbackReserve
  <2>3. QED BY <1>3, <2>1, <2>2 DEF RollbackReserve
<1>4. CASE DirectFunds(r)
  <2>1. CASE wallet' = wallet /\ subUsed' = subUsed /\ direct' = direct
    BY <1>4, <2>1 DEF Rests, DirectFunds
  <2>2. CASE /\ TakesFunds(r, arg[r], callSeen[r])
             /\ direct' = [direct EXCEPT ![r] = @ + arg[r]]
    BY <1>0, <1>4, <2>2 DEF BaseOK, HoldInv, Transfers, DirectFunds
  <2>3. QED BY <1>4, <2>1, <2>2 DEF DirectFunds
<1>5. CASE SettleToken(r) \/ ReserveTokenRead(r) \/ ReserveTokenWrite(r)
             \/ DirectToken(r)
  BY <1>5 DEF Rests, SettleToken, ReserveTokenRead, ReserveTokenWrite,
              Reserved, DirectToken
<1>6. QED BY <1>1, <1>2, <1>3, <1>4, <1>5 DEF CallStep

\* The goroutine that Refund starts.
LEMMA JobMoves ==
  ASSUME BaseOK, NEW r \in Requests, RequestInv(r), HoldInv(r), JobStep(r)
  PROVE  Rests(r) \/ \E d \in Int : Transfers(r, d)
<1>0. /\ -consumed[r] \in Int /\ -extraReserved[r] \in Int
      /\ funding[r] # "none"
  BY DEF BaseOK, HoldInv, RequestInv, ControlInv, JobStep, RefundWallet,
         RefundSubscription, MarkRefunded, RefundExtra, RefundToken,
         Locations
<1>1. CASE RefundWallet(r)
  <2>1. CASE wallet' = wallet /\ subUsed' = subUsed /\ charged' = charged
    BY <1>1, <2>1 DEF Rests, RefundWallet
  <2>2. CASE /\ TakesFunds(r, -consumed[r], jobSeen[r])
             /\ Charge(r, -consumed[r])
    BY <1>0, <1>1, <2>2 DEF BaseOK, Transfers, Charge, RefundWallet
  <2>3. QED BY <1>1, <2>1, <2>2 DEF RefundWallet
<1>2. CASE RefundSubscription(r)
  <2>1. CASE wallet' = wallet /\ subUsed' = subUsed /\ charged' = charged
    BY <1>2, <2>1 DEF Rests, RefundSubscription
  <2>2. CASE /\ TakesFunds(r, -consumed[r], jobSeen[r])
             /\ Charge(r, -consumed[r])
    BY <1>0, <1>2, <2>2 DEF BaseOK, Transfers, Charge, RefundSubscription
  <2>3. QED BY <1>2, <2>1, <2>2 DEF RefundSubscription
<1>3. CASE RefundExtra(r)
  <2>1. CASE wallet' = wallet /\ subUsed' = subUsed /\ charged' = charged
    BY <1>3, <2>1 DEF Rests, RefundExtra
  <2>2. CASE /\ TakesFunds(r, -extraReserved[r], jobSeen[r])
             /\ Charge(r, -extraReserved[r])
    BY <1>0, <1>3, <2>2 DEF BaseOK, Transfers, Charge, RefundExtra
  <2>3. QED BY <1>3, <2>1, <2>2 DEF RefundExtra
<1>4. CASE MarkRefunded(r) \/ RefundToken(r)
  BY <1>4 DEF Rests, MarkRefunded, RefundToken
<1>5. QED BY <1>1, <1>2, <1>3, <1>4 DEF JobStep

\* Whatever a request does, it rests or it transfers and accounts for it.
LEMMA StepMoves ==
  ASSUME BaseOK, NEW r \in Requests, RequestInv(r), HoldInv(r),
         PreConsumeStep(r) \/ CallStep(r) \/ JobStep(r) \/ ClientStep(r)
  PROVE  Rests(r) \/ \E d \in Int : Transfers(r, d)
<1>1. CASE ClientStep(r)
  BY <1>1 DEF ClientStep, Rests, Start, Settle, Reserve, Refund,
              RealtimeTurn, ChargeViolationFee
<1>2. QED BY <1>1, PreConsumeMoves, CallMoves, JobMoves

\* A request that charges the wallet never gives it back more than it took:
\* WalletFunding.consumed is what was taken, and Settle starts from it.
LEMMA WalletChargeInv ==
  ASSUME BaseOK, NEW r \in Requests, RequestInv(r), HoldInv(r),
         PreConsumeStep(r) \/ CallStep(r) \/ JobStep(r) \/ ClientStep(r)
  PROVE  OnWallet(r)' => charged'[r] >= 0
<1> USE DEF RequestInv
<1>0. charged[r] \in Int /\ consumed[r] \in Nat /\ extraReserved[r] \in Nat
      /\ arg[r] \in Int /\ actual[r] \in Nat /\ preConsumedQuota[r] \in Nat
      /\ Amount(r) \in Nat
  BY DEF BaseOK, Amount
<1>1. CASE charged'[r] = charged[r]
  <2>1. pc[r] \in BeforeLive => charged[r] >= 0
    BY <1>0 DEF ControlInv
  <2>2. pc[r] \notin BeforeLive => funding'[r] = funding[r]
    BY DEF PreConsumeStep, CallStep, JobStep, ClientStep, ChooseFunding,
           TryWallet, PreConsumeTokenRead, PreConsumeTokenWrite,
           PreConsumeFunds, RollbackToken, CheckOverflow, SettleFunds,
           SettleToken, ReserveFunds, ReserveTokenRead, ReserveTokenWrite,
           RollbackReserve, Reserved, DirectFunds, DirectToken, RefundWallet,
           RefundSubscription, MarkRefunded, RefundExtra, RefundToken, Start,
           Settle, Reserve, Refund, RealtimeTurn, ChargeViolationFee
  <2>3. QED BY <1>1, <2>1, <2>2 DEF HoldInv
<1>2. CASE PreConsumeFunds(r) /\ charged'[r] # charged[r]
  BY <1>0, <1>2 DEF BaseOK, ControlInv, Charge, PreConsumeFunds
<1>3. CASE SettleFunds(r) /\ charged'[r] # charged[r]
  BY <1>0, <1>3 DEF BaseOK, ControlInv, WalletInv, Reserving, Charge,
                    SettleFunds
<1>4. CASE ReserveFunds(r) /\ charged'[r] # charged[r]
  BY <1>0, <1>4 DEF BaseOK, ControlInv, HoldInv, Charge, ReserveFunds
<1>5. CASE RollbackReserve(r) /\ charged'[r] # charged[r]
  BY <1>0, <1>5 DEF BaseOK, ControlInv, WalletInv, Reserving, Charge,
                    RollbackReserve
<1>6. CASE RefundWallet(r) /\ charged'[r] # charged[r]
  BY <1>0, <1>6 DEF BaseOK, ControlInv, WalletInv, Reserving, Charge,
                    RefundWallet, Locations
<1>7. CASE RefundSubscription(r) \/ RefundExtra(r)
  BY <1>0, <1>7 DEF BaseOK, ControlInv, RefundSubscription, RefundExtra
<1>8. CASE ~ \/ PreConsumeFunds(r) \/ SettleFunds(r) \/ ReserveFunds(r)
             \/ RollbackReserve(r) \/ RefundWallet(r)
             \/ RefundSubscription(r) \/ RefundExtra(r)
  BY <1>1, <1>8 DEF PreConsumeStep, CallStep, JobStep, ClientStep,
     ChooseFunding, TryWallet, PreConsumeTokenRead, PreConsumeTokenWrite,
     RollbackToken, CheckOverflow, SettleToken, ReserveTokenRead,
     ReserveTokenWrite, DirectFunds, DirectToken, MarkRefunded, RefundToken,
     Start, Settle, Reserve, Refund, RealtimeTurn, ChargeViolationFee
<1>9. QED BY <1>1, <1>2, <1>3, <1>4, <1>5, <1>6, <1>7, <1>8

\* A session is handed out with a funding source and nothing charged past it;
\* the charges past a session touch no other request.
LEMMA HoldStep ==
  ASSUME BaseOK, NEW r \in Requests, RequestInv(r), HoldInv(r),
         PreConsumeStep(r) \/ CallStep(r) \/ JobStep(r) \/ ClientStep(r)
  PROVE  HoldInv(r)' /\ \A q \in Requests \ {r} : direct'[q] = direct[q]
<1> DEFINE Goal == /\ pc'[r] \in BeforeLive => direct'[r] = 0
                   /\ pc'[r] \in {"readToken", "takeToken", "takeFunds"}
                                   \union AfterLive => funding'[r] # "none"
                   /\ \A q \in Requests \ {r} : direct'[q] = direct[q]
<1> SUFFICES Goal
  BY WalletChargeInv DEF HoldInv
<1>1. CASE PreConsumeStep(r)
  BY <1>1 DEF BaseOK, HoldInv, PreConsumeStep, ChooseFunding, TryWallet,
              PreConsumeTokenRead, PreConsumeTokenWrite, PreConsumeFunds,
              RollbackToken, CheckOverflow
<1>2. CASE CallStep(r)
  BY <1>2 DEF BaseOK, HoldInv, CallStep, SettleFunds, SettleToken,
              ReserveFunds, ReserveTokenRead, ReserveTokenWrite,
              RollbackReserve, Reserved, DirectFunds, DirectToken,
              AfterDirect
<1>3. CASE JobStep(r)
  BY <1>3 DEF BaseOK, HoldInv, JobStep, RefundWallet, RefundSubscription,
              MarkRefunded, RefundExtra, RefundToken
<1>4. CASE ClientStep(r)
  BY <1>4 DEF BaseOK, HoldInv, ClientStep, Start, Settle, Reserve, Refund,
              RealtimeTurn, ChargeViolationFee
<1>5. QED BY <1>1, <1>2, <1>3, <1>4

\* No request that holds something leaves its funding source, and what the
\* wallet or the subscription loses or regains is held by the acting request.
HoldsInv == \A r \in Requests : HoldInv(r)

\* What is held is a natural number: of the wallet always, of the subscription
\* unless a refund has been made twice.
LEMMA HeldIsNat ==
  ASSUME IInv, HoldsInv
  PROVE  /\ Held("wallet") \in [Requests -> Nat]
         /\ "mark" \notin FaultKinds =>
              Held("subscription") \in [Requests -> Nat]
<1>1. ASSUME NEW r \in Requests
      PROVE  /\ charged[r] \in Int /\ direct[r] \in Nat
             /\ funding[r] = "wallet" => charged[r] >= 0
             /\ "mark" \notin FaultKinds => charged[r] >= 0
  BY DEF IInv, TypeOK, BaseOK, HoldsInv, HoldInv, BoundInv
<1>2. QED BY <1>1 DEF Held

\* A step moves the wallet by what the acting request holds more or less of
\* it afterwards; with serialised transactions the same is true of the
\* subscription, whose clamp would only show if more came back than is held.
LEMMA HeldMoves ==
  ASSUME IInv, HoldsInv, BaseOK', NEW r \in Requests,
         Rests(r) \/ \E d \in Int : Transfers(r, d)
  PROVE  /\ wallet' = wallet - (Held("wallet")'[r] - Held("wallet")[r])
         /\ /\ Serialised
            /\ subUsed >= Held("subscription")[r]
            /\ Held("subscription")'[r] >= 0
            => subUsed' = subUsed + Held("subscription")'[r]
                            - Held("subscription")[r]
<1>0. /\ wallet \in Int /\ subUsed \in Nat
      /\ charged[r] \in Int /\ direct[r] \in Nat
      /\ charged'[r] \in Int /\ direct'[r] \in Nat
      /\ funding[r] \in {"none", "wallet", "subscription"}
      /\ funding'[r] \in {"none", "wallet", "subscription"}
  BY DEF IInv, TypeOK, BaseOK
<1>1. \A s \in {"wallet", "subscription"} :
        /\ Held(s)[r] = IF funding[r] = s THEN charged[r] + direct[r] ELSE 0
        /\ Held(s)'[r] = IF funding'[r] = s
                         THEN charged'[r] + direct'[r] ELSE 0
  BY DEF Held
<1>2. CASE Rests(r)
  BY <1>0, <1>1, <1>2 DEF Rests
<1>3. ASSUME NEW d \in Int, Transfers(r, d)
      PROVE  /\ wallet' = wallet - (Held("wallet")'[r] - Held("wallet")[r])
             /\ /\ Serialised
                /\ subUsed >= Held("subscription")[r]
                /\ Held("subscription")'[r] >= 0
                => subUsed' = subUsed + Held("subscription")'[r]
                                - Held("subscription")[r]
  <2>1. charged'[r] + direct'[r] = charged[r] + direct[r] + d
    BY <1>3 DEF Transfers
  <2>2. funding'[r] = funding[r] /\ funding[r] \in {"wallet", "subscription"}
    BY <1>0, <1>3 DEF Transfers
  <2>3. CASE funding[r] = "wallet"
    <3>1. wallet' = wallet - d /\ subUsed' = subUsed
      BY <1>3, <2>3 DEF Transfers, TakesFunds
    <3>2. QED BY <3>1, <2>1, <2>2, <2>3, <1>0, <1>1
  <2>4. CASE funding[r] = "subscription"
    <3>1. wallet' = wallet
      BY <1>0, <1>3, <2>4 DEF Transfers, TakesFunds
    <3>2. Serialised => subUsed' = IF subUsed + d < 0 THEN 0 ELSE subUsed + d
      BY <1>0, <1>3, <2>4 DEF Transfers, TakesFunds, SubReads, SubAfter
    <3>3. QED BY <3>1, <3>2, <2>1, <2>2, <2>4, <1>0, <1>1
  <2>5. QED BY <2>2, <2>3, <2>4
<1>4. QED BY <1>2, <1>3

\* Every step keeps HoldsInv, and moves what a source has lent as one request
\* does: some r rests or transfers, and nobody else's holding changes.
LEMMA NextHolds ==
  ASSUME IInv, HoldsInv, [Next]_vars
  PROVE  /\ HoldsInv'
         /\ \/ /\ wallet' = wallet /\ subUsed' = subUsed
               /\ \A s : Held(s)' = Held(s)
            \/ \E r \in Requests :
                 /\ Rests(r) \/ \E d \in Int : Transfers(r, d)
                 /\ \A s : \A q \in Requests \ {r} : Held(s)'[q] = Held(s)[q]
<1>0. BaseOK /\ TypeOK /\ \A r \in Requests : RequestInv(r) /\ HoldInv(r)
  BY IInvIsPerRequest DEF TypeOK, HoldsInv
<1>1. ASSUME NEW r \in Requests,
             PreConsumeStep(r) \/ CallStep(r) \/ JobStep(r) \/ ClientStep(r)
      PROVE  /\ HoldsInv'
             /\ Rests(r) \/ \E d \in Int : Transfers(r, d)
             /\ \A s : \A q \in Requests \ {r} : Held(s)'[q] = Held(s)[q]
  <2>1. \A q \in Requests \ {r} : Same(q)
    BY <1>0, <1>1, StepInv
  <2>2. HoldInv(r)' /\ \A q \in Requests \ {r} : direct'[q] = direct[q]
    BY <1>0, <1>1, HoldStep
  <2>3. Rests(r) \/ \E d \in Int : Transfers(r, d)
    BY <1>0, <1>1, StepMoves
  <2>4. ASSUME NEW q \in Requests \ {r} PROVE HoldInv(q)'
    BY <1>0, <2>1, <2>2 DEF Same, HoldInv
  <2>5. HoldsInv'
    BY <2>2, <2>4 DEF HoldsInv
  <2>6. \A s : \A q \in Requests \ {r} : Held(s)'[q] = Held(s)[q]
    BY <2>1, <2>2 DEF Same, Held
  <2>7. QED BY <2>3, <2>5, <2>6
<1>2. CASE ExpireSubscription \/ UNCHANGED vars
  <2>1. UNCHANGED <<wallet, subUsed, pc, funding, charged, direct>>
    BY <1>2 DEF ExpireSubscription, vars
  <2>2. HoldsInv'
    BY <2>1, <1>0 DEF HoldsInv, HoldInv
  <2>3. \A s : Held(s)' = Held(s)
    BY <2>1 DEF Held
  <2>4. QED BY <2>1, <2>2, <2>3
<1>3. CASE \E r \in Requests :
             PreConsumeStep(r) \/ CallStep(r) \/ JobStep(r) \/ ClientStep(r)
  BY <1>1, <1>3
<1>4. QED BY <1>2, <1>3 DEF Next, Step

\* Before any request nothing is held.
LEMMA InitHolds ==
  ASSUME Init
  PROVE  /\ HoldsInv
         /\ \A s : IsFiniteSet(Units(Held(s))) /\ Taken(s) = 0
<1>1. HoldsInv
  BY DEF Init, HoldsInv, HoldInv
<1>2. ASSUME NEW s PROVE Units(Held(s)) = {}
  <2>1. \A r \in Requests : Held(s)[r] = 0
    BY DEF Init, Held
  <2>2. DOMAIN Held(s) = Requests
    BY DEF Held
  <2>3. QED BY <2>1, <2>2 DEF Units
<1>3. QED BY <1>1, <1>2, FS_EmptySet DEF Taken

\* The wallet has lost exactly what the requests on it hold, under any
\* interleaving and whatever fails (IncreaseUserQuota and DecreaseUserQuota
\* are relative updates, and a source is never left with something held).
WalletHeld == wallet = InitWallet - Taken("wallet")

LEMMA WalletIsHeld == Spec => []WalletHeld
<1> DEFINE Inv == /\ HoldsInv
                  /\ IsFiniteSet(Units(Held("wallet")))
                  /\ WalletHeld
<1>1. Init => Inv
  <2> SUFFICES ASSUME Init PROVE Inv
    OBVIOUS
  <2>1. QED BY InitHolds DEF Init, WalletHeld
<1>2. IInv /\ IInv' /\ Inv /\ [Next]_vars => Inv'
  <2> SUFFICES ASSUME IInv, IInv', Inv, [Next]_vars PROVE Inv'
    OBVIOUS
  <2>0. HoldsInv'
    BY NextHolds
  <2>1. Held("wallet") \in [Requests -> Nat]
    BY HeldIsNat
  <2>2. Held("wallet")' \in [Requests -> Nat]
    <3>1. ASSUME NEW r \in Requests
          PROVE  /\ charged'[r] \in Int /\ direct'[r] \in Nat
                 /\ funding'[r] = "wallet" => charged'[r] >= 0
      BY <2>0 DEF IInv, TypeOK, BaseOK, HoldsInv, HoldInv
    <3>2. QED BY <3>1 DEF Held
  <2>3. CASE wallet' = wallet /\ Held("wallet")' = Held("wallet")
    BY <2>0, <2>3 DEF WalletHeld, Taken, Units
  <2>4. ASSUME NEW r \in Requests,
               Rests(r) \/ \E d \in Int : Transfers(r, d),
               \A q \in Requests \ {r} : Held("wallet")'[q] = Held("wallet")[q]
        PROVE  Inv'
    <3> DEFINE h == Held("wallet")
               k == Held("wallet")'
    <3>1. /\ IsFiniteSet(Units(k))
          /\ Cardinality(Units(k)) = Cardinality(Units(h)) + k[r] - h[r]
      <4> HIDE DEF h, k
      <4> QED BY <2>1, <2>2, <2>4, UnitsChange DEF h, k
    <3>2. wallet' = wallet - (k[r] - h[r])
      BY <2>4, HeldMoves DEF IInv, TypeOK
    <3>3. Cardinality(Units(h)) \in Nat /\ h[r] \in Nat /\ k[r] \in Nat
      BY <2>1, <2>2, FS_CardinalityType
    <3>4. wallet = InitWallet - Cardinality(Units(h))
      BY DEF WalletHeld, Taken
    <3>5. wallet' = InitWallet - Cardinality(Units(k))
      <4> HIDE DEF h, k
      <4> QED BY <3>1, <3>2, <3>3, <3>4
    <3>6. QED BY <2>0, <3>1, <3>5 DEF WalletHeld, Taken, Units
  <2>5. QED BY <2>3, <2>4, NextHolds
<1>3. QED BY <1>1, <1>2, SpecImpliesIInv, PTL DEF Spec

\* Nothing is charged past a session where there are neither realtime requests
\* nor fees.
NothingBeside == \A r \in Requests : direct[r] = 0 /\ pc[r] \notin DirectLocs

LEMMA BesideStep ==
  ASSUME Realtime = {}, ViolationFee = 0, BaseOK, NEW r \in Requests,
         direct[r] = 0, pc[r] \notin DirectLocs,
         PreConsumeStep(r) \/ CallStep(r) \/ JobStep(r) \/ ClientStep(r)
  PROVE  direct'[r] = 0 /\ pc'[r] \notin DirectLocs
<1>1. CASE PreConsumeStep(r)
  BY <1>1 DEF BaseOK, PreConsumeStep, ChooseFunding, TryWallet,
              PreConsumeTokenRead, PreConsumeTokenWrite, PreConsumeFunds,
              RollbackToken, CheckOverflow
<1>2. CASE CallStep(r)
  BY <1>2 DEF BaseOK, CallStep, SettleFunds, SettleToken, ReserveFunds,
              ReserveTokenRead, ReserveTokenWrite, RollbackReserve,
              DirectFunds, DirectToken
<1>3. CASE JobStep(r)
  BY <1>3 DEF BaseOK, JobStep, RefundWallet, RefundSubscription,
              MarkRefunded, RefundExtra, RefundToken
<1>4. CASE ClientStep(r)
  BY <1>4 DEF BaseOK, ClientStep, Start, Settle, Reserve, Refund,
              RealtimeTurn, ChargeViolationFee
<1>5. QED BY <1>1, <1>2, <1>3, <1>4

LEMMA NothingIsBeside ==
  ASSUME Realtime = {}, ViolationFee = 0
  PROVE  Spec => [](NothingBeside /\ HoldsInv)
<1>1. Init => NothingBeside /\ HoldsInv
  BY InitHolds DEF Init, NothingBeside
<1>2. IInv /\ NothingBeside /\ HoldsInv /\ [Next]_vars
        => (NothingBeside /\ HoldsInv)'
  <2> SUFFICES ASSUME IInv, NothingBeside, HoldsInv, [Next]_vars
               PROVE  NothingBeside' /\ HoldsInv'
    OBVIOUS
  <2>0. BaseOK /\ TypeOK /\ \A r \in Requests : RequestInv(r) /\ HoldInv(r)
    BY IInvIsPerRequest DEF TypeOK, HoldsInv
  <2>1. ASSUME NEW r \in Requests,
               PreConsumeStep(r) \/ CallStep(r) \/ JobStep(r) \/ ClientStep(r)
        PROVE  NothingBeside'
    <3>1. direct'[r] = 0 /\ pc'[r] \notin DirectLocs
      BY <2>0, <2>1, BesideStep DEF NothingBeside
    <3>2. \A q \in Requests \ {r} : Same(q) /\ direct'[q] = direct[q]
      BY <2>0, <2>1, StepInv, HoldStep
    <3>3. QED BY <3>1, <3>2 DEF NothingBeside, Same
  <2>2. ASSUME ExpireSubscription \/ UNCHANGED vars
        PROVE  NothingBeside'
    BY <2>2 DEF NothingBeside, ExpireSubscription, vars
  <2>3. NothingBeside'
    BY <2>1, <2>2 DEF Next, Step
  <2>4. QED BY <2>3, NextHolds
<1>3. QED BY <1>1, <1>2, SpecImpliesIInv, PTL DEF Spec

\* Then the fields of a session say what it holds of the wallet: consumed
\* before it is settled, actual and what a rollback left behind afterwards,
\* nothing once it has been refunded.
LEMMA BookIsHeld ==
  ASSUME IInv, HoldsInv, NothingBeside,
         \A r \in faulty : ~(OnWallet(r) /\ job[r] \in {"token", "done"})
  PROVE  WalletBook = Held("wallet")
<1>1. ASSUME NEW r \in Requests, OnWallet(r)
      PROVE  WalletBook[r] = charged[r] + direct[r]
  <2>1. /\ ControlInv(r) /\ WalletInv(r)
        /\ r \notin faulty => ExactInv(r)
        /\ direct[r] = 0 /\ charged[r] \in Int
        /\ pc[r] \in Locations
        /\ job[r] \in {"none", "funds", "mark", "extra", "token", "done"}
    BY DEF IInv, TypeOK, BaseOK, NothingBeside
  <2>2. charged[r] + direct[r] = charged[r]
    BY <2>1
  <2>3. CASE pc[r] \in BeforeLive
    <3>1. /\ charged[r] = 0 /\ consumed[r] = 0 /\ job[r] = "none"
          /\ r \notin settled /\ pc[r] # "settleToken"
      BY <2>1, <2>3 DEF ControlInv
    <3>2. QED BY <1>1, <2>2, <3>1 DEF WalletBook
  <2>4. CASE pc[r] \in AfterLive /\ job[r] \in {"token", "done"}
    <3>1. charged[r] = 0
      BY <1>1, <2>1, <2>4 DEF ExactInv
    <3>2. QED BY <1>1, <2>2, <2>4, <3>1 DEF WalletBook
  <2>5. CASE pc[r] \in AfterLive /\ job[r] \notin {"token", "done"}
    <3>1. job[r] \in {"none", "funds"}
      BY <1>1, <2>1, <2>5 DEF ControlInv
    <3>2. r \in settled =>
            charged[r] = actual[r] + consumed[r] - preConsumedQuota[r]
      BY <1>1, <2>1, <2>5 DEF WalletInv
    <3>3. r \notin settled =>
            charged[r] = consumed[r]
                           + (IF pc[r] = "settleToken" THEN arg[r] ELSE 0)
      BY <1>1, <2>1, <2>5, <3>1 DEF WalletInv
    <3>4. QED BY <1>1, <2>2, <2>5, <3>2, <3>3 DEF WalletBook
  <2>6. QED BY <2>1, <2>3, <2>4, <2>5 DEF Locations
<1>2. \A r \in Requests : WalletBook[r] = Held("wallet")[r]
  BY <1>1 DEF WalletBook, Held
<1>3. QED BY <1>2 DEF WalletBook, Held

\* The balance of the user is what the fields of the sessions say: whatever
\* fails but a refund, on any interleaving of any requests, no session forgets
\* or repeats what it has taken.
THEOREM WalletIsAccountedFor ==
  ASSUME Realtime = {}, ViolationFee = 0
  PROVE  Spec => []WalletAddsUp
<1>1. IInv /\ HoldsInv /\ NothingBeside /\ WalletHeld => WalletAddsUp
  BY BookIsHeld DEF WalletAddsUp, WalletHeld, Taken
<1>2. QED BY <1>1, SpecImpliesIInv, NothingIsBeside, WalletIsHeld, PTL

\* With transactions that run one after the other, and unless the save of a
\* refund record fails after its refund, amount_used is the sum of what the
\* subscription's requests hold, for any number of requests and failures.
THEOREM SubscriptionIsAccountedFor ==
  ASSUME Serialised, "mark" \notin FaultKinds
  PROVE  Spec => []SubscriptionAddsUp
<1> DEFINE Inv == /\ HoldsInv
                  /\ IsFiniteSet(Units(Held("subscription")))
                  /\ SubscriptionAddsUp
<1>1. Init => Inv
  <2> SUFFICES ASSUME Init PROVE Inv
    OBVIOUS
  <2>1. QED BY InitHolds DEF Init, SubscriptionAddsUp
<1>2. IInv /\ IInv' /\ Inv /\ [Next]_vars => Inv'
  <2> SUFFICES ASSUME IInv, IInv', Inv, [Next]_vars PROVE Inv'
    OBVIOUS
  <2>0. HoldsInv'
    BY NextHolds
  <2>1. Held("subscription") \in [Requests -> Nat]
    BY HeldIsNat
  <2>2. Held("subscription")' \in [Requests -> Nat]
    <3>1. ASSUME NEW r \in Requests
          PROVE  charged'[r] \in Int /\ direct'[r] \in Nat /\ charged'[r] >= 0
      BY DEF IInv, TypeOK, BaseOK, BoundInv
    <3>2. QED BY <3>1 DEF Held
  <2>3. CASE subUsed' = subUsed /\ Held("subscription")' = Held("subscription")
    BY <2>0, <2>3 DEF SubscriptionAddsUp, Taken, Units
  <2>4. ASSUME NEW r \in Requests,
               Rests(r) \/ \E d \in Int : Transfers(r, d),
               \A q \in Requests \ {r} :
                 Held("subscription")'[q] = Held("subscription")[q]
        PROVE  Inv'
    <3> DEFINE h == Held("subscription")
               k == Held("subscription")'
    <3>1. /\ IsFiniteSet(Units(k))
          /\ Cardinality(Units(k)) = Cardinality(Units(h)) + k[r] - h[r]
          /\ Cardinality(Units(h)) >= h[r]
      <4> HIDE DEF h, k
      <4> QED BY <2>1, <2>2, <2>4, UnitsChange DEF h, k
    <3>2. subUsed = Cardinality(Units(h))
      BY DEF SubscriptionAddsUp, Taken
    <3>3. h[r] \in Nat /\ k[r] \in Nat /\ subUsed \in Nat
      BY <2>1, <2>2 DEF IInv, TypeOK, BaseOK
    <3>4. subUsed' = subUsed + k[r] - h[r]
      BY <2>4, <3>1, <3>2, <3>3, HeldMoves DEF IInv, TypeOK
    <3>5. subUsed' = Cardinality(Units(k))
      <4> HIDE DEF h, k
      <4> QED BY <3>1, <3>2, <3>3, <3>4
    <3>6. QED BY <2>0, <3>1, <3>5 DEF SubscriptionAddsUp, Taken, Units
  <2>5. QED BY <2>3, <2>4, NextHolds
<1>3. QED BY <1>1, <1>2, SpecImpliesIInv, PTL DEF Spec
=============================================================================
