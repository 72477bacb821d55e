---------------------------- MODULE TopUpProofs ----------------------------
(***************************************************************************)
(* Proofs about TopUp for any number of orders, nodes, requests, faults    *)
(* and crashes: LockOrder excludes, an order is granted once, its row      *)
(* tells the truth, and the payment code implements Ledger.                *)
(***************************************************************************)
EXTENDS TopUp, FiniteSetTheorems, TLAPS

\* From the moment the mutex is counted until it is uncounted.
Counted == {"waiting", "inside", "checked", "granting", "crediting",
            "closing", "leaving", "uncount"}

\* The requests on node n that were counted for mutex m.
Users(n, m) == {h \in Handlers : Node[h] = n /\ mine[h] = m}

\* A request has a mutex exactly while it is counted for one.
MineInv ==
  \A h \in Handlers :
    /\ (mine[h] # None) <=> (pc[h] \in Counted /\ Locks(req[h]))
    /\ pc[h] \in {"waiting", "uncount"} => Locks(req[h])

\* UnlockOrder will find in the map the mutex that LockOrder found: an entry
\* stays while a request is counted, and belongs to one order.
MapInv ==
  /\ \A h \in Handlers :
       mine[h] # None => orderLocks[Node[h]][Cell(h)] = mine[h]
  /\ \A n \in Nodes, o, p \in Orders :
       orderLocks[n][o] # None /\ orderLocks[n][o] = orderLocks[n][p]
         => o = p
  /\ \A n \in Nodes, o \in Orders :
       orderLocks[n][o] # None => refCount[n][orderLocks[n][o]] # 0

\* refCount counts.
CountInv ==
  \A n \in Nodes, m \in Mutexes : refCount[n][m] = Cardinality(Users(n, m))

\* A mutex is locked while somebody is inside with it, and by one only.
HeldInv ==
  \A h \in Handlers : Inside(h) =>
    /\ mine[h] \in held[Node[h]]
    /\ \A g \in Handlers \ {h} :
         Node[g] = Node[h] /\ Inside(g) => mine[g] # mine[h]

LockInv == MineInv /\ MapInv /\ CountInv /\ HeldInv

\* An order that does not exist is as Init left it, and a request is about
\* one that does.
OrderInv ==
  /\ \A o \in Orders :
       /\ status[o] = "none" =>
            /\ provider[o] = "none"
            /\ outcome[o] = "open"
            /\ granted[o] = 0
            /\ o \notin sub
            /\ o \notin ordered
       /\ status[o] # "none" => provider[o] \in Providers
       /\ outcome[o] \in {"failed", "expired"} =>
            provider[o] \in {"stripe", "waffo"}
  /\ \A h \in Handlers : pc[h] # "idle" =>
       /\ status[Cell(h)] # "none"
       /\ req[h].via = "admin" <=> req[h].event = "complete"
       /\ req[h].via = "admin" =>
            /\ provider[Cell(h)] \in AdminProviders
            /\ Cell(h) \in ordered
       /\ req[h].via = provider[Cell(h)] => req[h].event \in Reports(Cell(h))

\* Requests that have judged the row keep what they judged by.
JudgedInv ==
  \A h \in Handlers :
    /\ pc[h] \in {"granting", "crediting"} =>
         req[h].event \in {"paid", "complete"} /\ Owns(req[h])
    /\ pc[h] = "crediting" =>
         /\ req[h].via = "epay"
         /\ Cell(h) \notin sub
         /\ status[Cell(h)] = "success"
    /\ pc[h] = "closing" =>
         req[h].event \in {"failed", "expired"} /\ Owns(req[h])

\* What an order may be granted: what its own webhook gives, or for a top-up
\* that an administrator asked for what ManualCompleteTopUp gives.
ByHand(o) == provider[o] \in AdminProviders /\ o \in ordered /\ o \notin sub
Prices(o) ==
  {Bought(o)} \cup {q \in {ManualQuota(provider[o])} : ByHand(o)}

\* An order is granted after somebody has approved it, once, and never while
\* it is pending; a request that is about to grant or close it under the
\* lock comes before that.
GrantInv ==
  /\ \A o \in Orders :
       granted[o] # 0 =>
         /\ granted[o] \in Prices(o)
         /\ status[o] \notin {"none", "pending"}
         /\ outcome[o] = "paid" \/ o \in ordered
  /\ \A h \in Handlers :
       \/ pc[h] \in {"granting", "crediting"}
       \/ pc[h] = "closing" /\ Locks(req[h])
       => granted[Cell(h)] = 0

\* What the proofs below keep: the types, the locks, the rows and requests.
IInv == TypeOK /\ LockInv /\ OrderInv /\ JudgedInv
-----------------------------------------------------------------------------
USE TopUpAssumption DEF rows, gateway, locks, handler, failures, Cell

\* Whatever a handler grants, it grants something.
LEMMA QuotaPositive ==
  ASSUME NEW r
  PROVE  Quota(r) \in Nat \ {0}
<1>1. Amount * QuotaPerUnit \in Nat \ {0} /\ Money * QuotaPerUnit \in Nat \ {0}
  OBVIOUS
<1>2. \A p : ManualQuota(p) \in Nat \ {0}
  BY <1>1 DEF ManualQuota
<1>3. QED
  BY <1>1, <1>2 DEF Quota

\* There are finitely many requests, so those of a mutex can be counted.
LEMMA UsersFinite ==
  ASSUME NEW n, NEW m
  PROVE  /\ IsFiniteSet(Users(n, m))
         /\ Cardinality(Users(n, m)) \in Nat
<1>1. Users(n, m) \in SUBSET Handlers
  BY DEF Users
<1>2. QED
  BY <1>1, FS_Subset, FS_CardinalityType

\* LockOrder counts one request more.
LEMMA CountUp ==
  ASSUME TypeOK, CountInv, NEW h \in Handlers, NEW m \in Mutexes,
         mine[h] = None,
         mine' = [mine EXCEPT ![h] = m],
         refCount' = [refCount EXCEPT ![Node[h]][m] = @ + 1]
  PROVE  CountInv'
<1> SUFFICES ASSUME NEW n \in Nodes, NEW k \in Mutexes
             PROVE  refCount'[n][k] = Cardinality(Users(n, k)')
  BY DEF CountInv
<1>1. CASE n = Node[h] /\ k = m
  <2>1. Users(n, k)' = Users(n, k) \cup {h} /\ h \notin Users(n, k)
    BY <1>1 DEF Users, TypeOK
  <2>2. Cardinality(Users(n, k)') = Cardinality(Users(n, k)) + 1
    BY <2>1, UsersFinite, FS_AddElement
  <2>3. refCount'[n][k] = refCount[n][k] + 1
    BY <1>1 DEF TypeOK
  <2>4. QED
    BY <2>2, <2>3 DEF CountInv
<1>2. CASE ~(n = Node[h] /\ k = m)
  <2>1. Users(n, k)' = Users(n, k)
    BY <1>2 DEF Users, TypeOK
  <2>2. refCount'[n][k] = refCount[n][k]
    BY <1>2 DEF TypeOK
  <2>3. QED
    BY <2>1, <2>2 DEF CountInv
<1>3. QED
  BY <1>1, <1>2

\* UnlockOrder counts one request less.
LEMMA CountDown ==
  ASSUME TypeOK, CountInv, NEW h \in Handlers, mine[h] \in Mutexes,
         mine' = [mine EXCEPT ![h] = None],
         refCount' = [refCount EXCEPT ![Node[h]][mine[h]] = @ - 1]
  PROVE  CountInv' /\ refCount' \in [Nodes -> [Mutexes -> Nat]]
<1>1. ASSUME NEW n \in Nodes, NEW k \in Mutexes
      PROVE  /\ refCount'[n][k] = Cardinality(Users(n, k)')
             /\ refCount'[n][k] \in Nat
  <2>1. CASE n = Node[h] /\ k = mine[h]
    <3>1. Users(n, k)' = Users(n, k) \ {h} /\ h \in Users(n, k)
      BY <2>1 DEF Users, TypeOK
    <3>2. /\ Cardinality(Users(n, k)') = Cardinality(Users(n, k)) - 1
          /\ IsFiniteSet(Users(n, k)')
      BY <3>1, UsersFinite, FS_RemoveElement
    <3>3. refCount'[n][k] = refCount[n][k] - 1
      BY <2>1 DEF TypeOK
    <3>4. Cardinality(Users(n, k)') \in Nat
      BY <3>2, FS_CardinalityType
    <3>5. QED
      BY <3>2, <3>3, <3>4 DEF CountInv
  <2>2. CASE ~(n = Node[h] /\ k = mine[h])
    <3>1. Users(n, k)' = Users(n, k)
      BY <2>2 DEF Users, TypeOK
    <3>2. refCount'[n][k] = refCount[n][k]
      BY <2>2 DEF TypeOK
    <3>3. QED
      BY <3>1, <3>2 DEF CountInv, TypeOK
  <2>3. QED
    BY <2>1, <2>2
<1>2. refCount' = [n \in Nodes |-> [m \in Mutexes |-> refCount'[n][m]]]
  BY DEF TypeOK
<1>3. CountInv'
  BY <1>1 DEF CountInv
<1>4. refCount' \in [Nodes -> [Mutexes -> Nat]]
  <2>1. \A n \in Nodes : refCount'[n] = [m \in Mutexes |-> refCount'[n][m]]
    BY <1>2
  <2>2. \A n \in Nodes : refCount'[n] \in [Mutexes -> Nat]
    BY <2>1, <1>1
  <2>3. QED
    BY <2>2, <1>2
<1>5. QED
  BY <1>3, <1>4

\* If only one request is counted for a mutex, no other has it.
LEMMA LastUser ==
  ASSUME TypeOK, CountInv, NEW h \in Handlers, mine[h] \in Mutexes,
         refCount[Node[h]][mine[h]] = 1
  PROVE  \A g \in Handlers \ {h} : Node[g] = Node[h] => mine[g] # mine[h]
<1> DEFINE us == Users(Node[h], mine[h])
<1>1. Cardinality(us) = 1 /\ IsFiniteSet(us)
  BY UsersFinite DEF CountInv
<1>2. PICK x : us = {x}
  BY <1>1, FS_Singleton
<1>3. QED
  BY <1>2 DEF Users

\* A mutex that is not counted is nobody's.
LEMMA NoUser ==
  ASSUME TypeOK, CountInv, NEW n \in Nodes, NEW m \in Mutexes,
         refCount[n][m] = 0
  PROVE  \A g \in Handlers : Node[g] = n => mine[g] # m
<1>1. Users(n, m) = {}
  BY UsersFinite, FS_EmptySet DEF CountInv
<1>2. QED
  BY <1>1 DEF Users

\* A step keeps the locks when no request is counted, enters or leaves, and
\* no request that has a mutex changes its order.
SameForLocks(h) ==
  /\ (pc'[h] \in Counted /\ Locks(req'[h]))
       <=> (pc[h] \in Counted /\ Locks(req[h]))
  /\ pc'[h] \in {"waiting", "uncount"} => Locks(req'[h])
  /\ Inside(h)' => Inside(h)
  /\ mine[h] # None => req'[h].order = req[h].order

LEMMA LockFrame ==
  ASSUME TypeOK, LockInv, UNCHANGED <<locks, mine>>,
         \A h \in Handlers : SameForLocks(h)
  PROVE  LockInv'
<1>1. MineInv'
  BY DEF LockInv, MineInv, SameForLocks
<1>2. MapInv'
  BY DEF LockInv, MapInv, SameForLocks
<1>3. CountInv'
  <2>1. \A n, m : Users(n, m)' = Users(n, m)
    BY DEF Users
  <2>2. QED
    BY <2>1 DEF LockInv, CountInv
<1>4. HeldInv'
  BY DEF LockInv, HeldInv, SameForLocks
<1>5. QED
  BY <1>1, <1>2, <1>3, <1>4 DEF LockInv

\* The step of one request between two places where the locks do not matter.
LEMMA LockStep ==
  ASSUME TypeOK, LockInv, NEW h \in Handlers, NEW l,
         pc' = [pc EXCEPT ![h] = l], UNCHANGED <<locks, mine, req>>,
         \/ pc[h] = "arrived" /\ ~Locks(req[h])
         \/ pc[h] \in Counted \ {"waiting", "uncount"},
         l \in {"checked", "granting", "crediting", "closing", "leaving"}
  PROVE  LockInv'
<1>1. ASSUME NEW g \in Handlers PROVE SameForLocks(g)
  <2>1. CASE g = h
    BY <2>1 DEF SameForLocks, TypeOK, Inside, Counted
  <2>2. CASE g # h
    BY <2>2 DEF SameForLocks, TypeOK, Inside, LockInv, MineInv
  <2>3. QED
    BY <2>1, <2>2
<1>2. QED
  BY <1>1, LockFrame

\* LockOrder up to mu.Lock: the mutex found is that of the order's other
\* requests, the mutex made is nobody's.
LEMMA EnterLocks ==
  ASSUME IInv, NEW h \in Handlers, EnterLockOrder(h)
  PROVE  IInv'
<1> DEFINE n == Node[h]
           o == Cell(h)
<1> USE DEF IInv
<1>1. PICK m \in Mutexes :
        /\ IF orderLocks[n][o] # None
           THEN m = orderLocks[n][o]
           ELSE refCount[n][m] = 0
        /\ orderLocks' = [orderLocks EXCEPT ![n][o] = m]
        /\ refCount' = [refCount EXCEPT ![n][m] = @ + 1]
        /\ mine' = [mine EXCEPT ![h] = m]
  BY DEF EnterLockOrder
<1>2. /\ pc[h] = "arrived" /\ Locks(req[h])
      /\ pc' = [pc EXCEPT ![h] = "waiting"]
      /\ UNCHANGED <<rows, gateway, held, req, good, failures>>
  BY DEF EnterLockOrder
<1>3. n \in Nodes /\ o \in Orders /\ mine[h] = None
  BY <1>2 DEF TypeOK, Requests, LockInv, MineInv, Counted
<1>4. TypeOK'
  BY <1>1, <1>2, <1>3 DEF TypeOK, Pcs
<1>5. MineInv'
  BY <1>1, <1>2 DEF TypeOK, LockInv, MineInv, Counted
<1>6. MapInv'
  <2>1. \A p \in Orders \ {o} : orderLocks[n][p] # m
    BY <1>1, <1>3 DEF TypeOK, LockInv, MapInv
  <2>2. \A g \in Handlers :
          mine'[g] # None => orderLocks'[Node[g]][Cell(g)'] = mine'[g]
    <3> SUFFICES ASSUME NEW g \in Handlers, mine'[g] # None
                 PROVE  orderLocks'[Node[g]][req[g].order] = mine'[g]
      BY <1>2
    <3>1. CASE g = h
      BY <3>1, <1>1, <1>3 DEF TypeOK
    <3>2. CASE g # h /\ Node[g] = n /\ req[g].order = o
      BY <3>2, <1>1, <1>3 DEF TypeOK, LockInv, MapInv
    <3>3. CASE g # h /\ ~(Node[g] = n /\ req[g].order = o)
      BY <3>3, <1>1, <1>3 DEF TypeOK, Requests, LockInv, MapInv
    <3>4. QED
      BY <3>1, <3>2, <3>3
  <2>3. \A k \in Nodes, p, q \in Orders :
          orderLocks'[k][p] # None /\ orderLocks'[k][p] = orderLocks'[k][q]
            => p = q
    BY <2>1, <1>1, <1>3 DEF TypeOK, LockInv, MapInv
  <2>4. \A k \in Nodes, p \in Orders :
          orderLocks'[k][p] # None => refCount'[k][orderLocks'[k][p]] # 0
    BY <1>1, <1>3 DEF TypeOK, LockInv, MapInv
  <2>5. QED
    BY <2>2, <2>3, <2>4 DEF MapInv
<1>7. CountInv'
  BY <1>1, <1>3, CountUp DEF LockInv
<1>8. HeldInv'
  BY <1>1, <1>2 DEF TypeOK, LockInv, HeldInv, Inside
<1>9. OrderInv' /\ JudgedInv'
  BY <1>2 DEF TypeOK, OrderInv, JudgedInv, Owns, Reports
<1>10. QED
  BY <1>4, <1>5, <1>6, <1>7, <1>8, <1>9 DEF LockInv

\* mu.Lock returns: nobody was inside with this mutex.
LEMMA AcquireLocks ==
  ASSUME IInv, NEW h \in Handlers, Acquire(h)
  PROVE  IInv'
<1> USE DEF IInv
<1>1. mine[h] \in Mutexes
  BY DEF Acquire, TypeOK, LockInv, MineInv, Counted
<1>2. TypeOK'
  BY <1>1 DEF Acquire, TypeOK, Pcs
<1>3. MineInv' /\ MapInv'
  BY DEF Acquire, TypeOK, LockInv, MineInv, MapInv, Counted
<1>4. CountInv'
  <2>1. \A n, m : Users(n, m)' = Users(n, m)
    BY DEF Users, Acquire
  <2>2. QED
    BY <2>1 DEF LockInv, CountInv, Acquire
<1>5. HeldInv'
  <2> SUFFICES ASSUME NEW g \in Handlers, Inside(g)'
               PROVE  /\ mine[g] \in held'[Node[g]]
                      /\ \A k \in Handlers \ {g} :
                           Node[k] = Node[g] /\ Inside(k)'
                             => mine[k] # mine[g]
    BY DEF HeldInv, Acquire
  <2>1. \A k \in Handlers \ {h} : Inside(k)' => Inside(k)
    BY DEF Acquire, TypeOK, Inside
  <2>2. CASE g = h
    BY <2>1, <2>2, <1>1 DEF Acquire, TypeOK, LockInv, HeldInv
  <2>3. CASE g # h
    BY <2>1, <2>3, <1>1 DEF Acquire, TypeOK, LockInv, HeldInv
  <2>4. QED
    BY <2>2, <2>3
<1>6. OrderInv' /\ JudgedInv'
  BY DEF Acquire, TypeOK, OrderInv, JudgedInv, Owns, Reports
<1>7. QED
  BY <1>2, <1>3, <1>4, <1>5, <1>6 DEF LockInv

\* UnlockOrder unlocks the mutex that LockOrder locked.
LEMMA UnlockLocks ==
  ASSUME IInv, NEW h \in Handlers, Unlock(h)
  PROVE  IInv'
<1> USE DEF IInv
<1>1. /\ mine[h] \in Mutexes
      /\ orderLocks[Node[h]][Cell(h)] = mine[h]
      /\ pc[h] = "leaving" /\ Locks(req[h])
  BY DEF Unlock, TypeOK, LockInv, MineInv, MapInv, Counted
<1>2. /\ held' = [held EXCEPT ![Node[h]] = @ \ {mine[h]}]
      /\ pc' = [pc EXCEPT ![h] = "uncount"]
      /\ mine' = mine
      /\ UNCHANGED <<rows, gateway, orderLocks, refCount, req, good,
                     failures>>
  BY <1>1 DEF Unlock, TypeOK
<1>3. TypeOK'
  BY <1>1, <1>2 DEF TypeOK, Pcs
<1>4. MineInv' /\ MapInv'
  BY <1>1, <1>2 DEF TypeOK, LockInv, MineInv, MapInv, Counted
<1>5. CountInv'
  <2>1. \A n, m : Users(n, m)' = Users(n, m)
    BY <1>2 DEF Users
  <2>2. QED
    BY <2>1, <1>2 DEF LockInv, CountInv
<1>6. HeldInv'
  <2>1. Inside(h)
    BY <1>1 DEF Inside
  <2>2. \A g \in Handlers : Inside(g)' => g # h /\ Inside(g)
    BY <1>2 DEF TypeOK, Inside
  <2>3. QED
    BY <2>1, <2>2, <1>1, <1>2 DEF TypeOK, LockInv, HeldInv
<1>7. OrderInv' /\ JudgedInv'
  BY <1>1, <1>2 DEF TypeOK, OrderInv, JudgedInv, Owns, Reports
<1>8. QED
  BY <1>3, <1>4, <1>5, <1>6, <1>7 DEF LockInv

\* UnlockOrder deletes the entry with its last user only.
LEMMA UncountLocks ==
  ASSUME IInv, NEW h \in Handlers, Uncount(h)
  PROVE  IInv'
<1> DEFINE n == Node[h]
           o == Cell(h)
           m == mine[h]
           left == refCount[n][m] - 1
<1> USE DEF IInv
<1>1. /\ m \in Mutexes
      /\ orderLocks[n][o] = m
      /\ n \in Nodes /\ o \in Orders
      /\ pc[h] = "uncount" /\ Locks(req[h])
  BY DEF Uncount, TypeOK, Requests, LockInv, MineInv, MapInv, Counted
<1>2. /\ refCount' = [refCount EXCEPT ![n][m] = @ - 1]
      /\ orderLocks' = IF left = 0 THEN [orderLocks EXCEPT ![n][o] = None]
                       ELSE orderLocks
      /\ mine' = [mine EXCEPT ![h] = None]
      /\ pc' = [pc EXCEPT ![h] = "answer"]
      /\ UNCHANGED <<rows, gateway, held, req, good, failures>>
  BY <1>1 DEF Uncount, Left, Forgotten, TypeOK
<1>3. CountInv' /\ refCount' \in [Nodes -> [Mutexes -> Nat]]
  BY <1>1, <1>2, CountDown DEF LockInv
<1>4. orderLocks' \in [Nodes -> [Orders -> Mutexes \cup {None}]]
  BY <1>1, <1>2 DEF TypeOK
<1>5. TypeOK'
  BY <1>1, <1>2, <1>3, <1>4 DEF TypeOK, Pcs
<1>6. MineInv'
  BY <1>1, <1>2 DEF TypeOK, LockInv, MineInv, Counted
<1>7. MapInv'
  <2>1. CASE left = 0
    <3>1. refCount[n][m] = 1
      BY <2>1, <1>1 DEF TypeOK
    <3>2. \A g \in Handlers \ {h} : Node[g] = n => mine[g] # m
      BY <3>1, <1>1, LastUser DEF LockInv
    <3>3. \A g \in Handlers :
            mine'[g] # None => orderLocks'[Node[g]][Cell(g)'] = mine'[g]
      BY <2>1, <3>2, <1>1, <1>2 DEF TypeOK, Requests, LockInv, MapInv
    <3>4. \A k \in Nodes, p \in Orders :
            orderLocks'[k][p] # None =>
              /\ orderLocks'[k][p] = orderLocks[k][p]
              /\ k = n => orderLocks[k][p] # m
      BY <2>1, <1>1, <1>2 DEF TypeOK, LockInv, MapInv
    <3>5. \A k \in Nodes, p \in Orders :
            orderLocks'[k][p] # None => refCount'[k][orderLocks'[k][p]] # 0
      BY <3>4, <1>1, <1>2 DEF TypeOK, LockInv, MapInv
    <3>6. QED
      BY <3>3, <3>4, <3>5 DEF TypeOK, LockInv, MapInv
  <2>2. CASE left # 0
    <3>1. \A k \in Nodes, p \in Orders :
            orderLocks[k][p] # None => refCount'[k][orderLocks[k][p]] # 0
      BY <2>2, <1>1, <1>2 DEF TypeOK, LockInv, MapInv
    <3>2. \A g \in Handlers :
            mine'[g] # None => orderLocks[Node[g]][Cell(g)] = mine'[g]
      BY <1>1, <1>2 DEF TypeOK, LockInv, MapInv
    <3>3. QED
      BY <2>2, <3>1, <3>2, <1>2 DEF LockInv, MapInv
  <2>3. QED
    BY <2>1, <2>2
<1>8. HeldInv'
  <2>1. \A g \in Handlers : Inside(g)' => g # h /\ Inside(g)
    BY <1>2 DEF TypeOK, Inside
  <2>2. QED
    BY <2>1, <1>1, <1>2 DEF TypeOK, LockInv, HeldInv
<1>9. OrderInv' /\ JudgedInv'
  BY <1>1, <1>2 DEF TypeOK, OrderInv, JudgedInv, Owns, Reports
<1>10. QED
  BY <1>3, <1>5, <1>6, <1>7, <1>8, <1>9 DEF LockInv

\* A node that dies takes its requests, its map and its mutexes along.
LEMMA CrashLocks ==
  ASSUME IInv, NEW n \in Nodes, Crash(n)
  PROVE  IInv'
<1> DEFINE Dead(h) == Node[h] = n
<1> USE DEF IInv
<1>1. /\ orderLocks' = [orderLocks EXCEPT ![n] = [o \in Orders |-> None]]
      /\ refCount' = [refCount EXCEPT ![n] = [m \in Mutexes |-> 0]]
      /\ held' = [held EXCEPT ![n] = {}]
      /\ good' \subseteq good
      /\ crashes' = crashes + 1 /\ crashes < MaxCrashes
      /\ UNCHANGED <<rows, gateway, faults, glossed>>
  BY DEF Crash
<1>2. /\ pc' = [h \in Handlers |-> IF Dead(h) THEN "idle" ELSE pc[h]]
      /\ req' = [h \in Handlers |-> IF Dead(h) THEN NoRequest ELSE req[h]]
      /\ mine' = [h \in Handlers |-> IF Dead(h) THEN None ELSE mine[h]]
  BY DEF Crash
<1>3. NoRequest \in Requests
  BY DEF NoRequest, Requests
<1>4. TypeOK'
  BY <1>1, <1>2, <1>3 DEF TypeOK, Pcs
<1>5. MineInv'
  BY <1>2 DEF TypeOK, LockInv, MineInv, Counted
<1>6. MapInv'
  BY <1>1, <1>2 DEF TypeOK, LockInv, MapInv
<1>7. CountInv'
  <2> SUFFICES ASSUME NEW k \in Nodes, NEW m \in Mutexes
               PROVE  refCount'[k][m] = Cardinality(Users(k, m)')
    BY DEF CountInv
  <2>1. CASE k = n
    <3>1. Users(k, m)' = {}
      BY <2>1, <1>2 DEF Users
    <3>2. refCount'[k][m] = 0
      BY <2>1, <1>1 DEF TypeOK
    <3>3. QED
      BY <3>1, <3>2, FS_EmptySet
  <2>2. CASE k # n
    <3>1. Users(k, m)' = Users(k, m)
      BY <2>2, <1>2 DEF Users
    <3>2. refCount'[k][m] = refCount[k][m]
      BY <2>2, <1>1 DEF TypeOK
    <3>3. QED
      BY <3>1, <3>2 DEF LockInv, CountInv
  <2>3. QED
    BY <2>1, <2>2
<1>8. HeldInv'
  <2>1. \A g \in Handlers : Inside(g)' => Node[g] # n /\ Inside(g)
    BY <1>2 DEF Inside
  <2>2. QED
    BY <2>1, <1>1, <1>2 DEF TypeOK, LockInv, HeldInv
<1>9. OrderInv' /\ JudgedInv'
  BY <1>1, <1>2 DEF TypeOK, OrderInv, JudgedInv, Owns, Reports
<1>10. QED
  BY <1>4, <1>5, <1>6, <1>7, <1>8, <1>9 DEF LockInv
-----------------------------------------------------------------------------
\* A step of the rows or of the gateway does not concern the locks.
LEMMA LocksUntouched ==
  ASSUME TypeOK, LockInv, UNCHANGED <<locks, mine, pc, req>>
  PROVE  LockInv'
<1>1. ASSUME NEW g \in Handlers PROVE SameForLocks(g)
  BY DEF SameForLocks, Inside, LockInv, MineInv
<1>2. QED
  BY <1>1, LockFrame

LEMMA CreateOrderInv ==
  ASSUME IInv, NEW o \in Orders, NEW p \in Providers, NEW isSub \in BOOLEAN,
         CreateOrder(o, p, isSub)
  PROVE  IInv'
<1> USE DEF IInv, CreateOrder
<1>1. TypeOK'
  BY DEF TypeOK, Statuses
<1>2. LockInv'
  BY LocksUntouched
<1>3. OrderInv'
  BY DEF TypeOK, OrderInv, Requests, Reports
<1>4. JudgedInv'
  <2>1. \A h \in Handlers : pc[h] # "idle" => Cell(h) # o
    BY DEF OrderInv
  <2>2. QED
    BY <2>1 DEF TypeOK, Requests, JudgedInv, Owns
<1>5. QED
  BY <1>1, <1>2, <1>3, <1>4

LEMMA PurchasesChangeInv ==
  ASSUME IInv, PurchasesChange
  PROVE  IInv'
<1> USE DEF IInv, PurchasesChange
<1>1. TypeOK'
  BY DEF TypeOK
<1>2. LockInv'
  BY LocksUntouched
<1>3. OrderInv' /\ JudgedInv'
  BY DEF OrderInv, JudgedInv, Owns, Reports
<1>4. QED
  BY <1>1, <1>2, <1>3

LEMMA CheckoutFailsInv ==
  ASSUME IInv, NEW o \in Orders, CheckoutFails(o)
  PROVE  IInv'
<1> USE DEF IInv, CheckoutFails
<1>1. TypeOK'
  BY DEF TypeOK, Statuses, Outcomes
<1>2. LockInv'
  BY LocksUntouched
<1>3. OrderInv'
  <2>1. \A h \in Handlers : Cell(h) \in Orders
    BY DEF TypeOK, Requests
  <2>2. \A q \in Orders : Reports(q) \subseteq Reports(q)'
    BY DEF TypeOK, Reports
  <2>3. QED
    BY <2>1, <2>2 DEF TypeOK, OrderInv
<1>4. JudgedInv'
  BY DEF TypeOK, Requests, JudgedInv, Owns
<1>5. QED
  BY <1>1, <1>2, <1>3, <1>4

LEMMA PaymentEndsInv ==
  ASSUME IInv, NEW o \in Orders, NEW end \in {"paid", "failed", "expired"},
         PaymentEnds(o, end)
  PROVE  IInv'
<1> USE DEF IInv, PaymentEnds
<1>1. TypeOK'
  BY DEF TypeOK, Outcomes
<1>2. LockInv'
  BY LocksUntouched
<1>3. OrderInv'
  <2>1. \A h \in Handlers : Cell(h) \in Orders
    BY DEF TypeOK, Requests
  <2>2. \A q \in Orders : Reports(q) \subseteq Reports(q)'
    BY DEF TypeOK, Reports
  <2>3. QED
    BY <2>1, <2>2 DEF TypeOK, OrderInv
<1>4. JudgedInv'
  BY DEF TypeOK, Requests, JudgedInv, Owns
<1>5. QED
  BY <1>1, <1>2, <1>3, <1>4

\* A request arrives: a webhook of the order's gateway reports its outcome,
\* one of another gateway does not own the order, an administrator is known.
LEMMA ArriveInv ==
  ASSUME IInv, NEW h \in Handlers, NEW o \in Orders,
         \/ \E event \in Reports(o) : Deliver(h, o, event)
         \/ \E p \in Strangers : DeliverForeign(h, o, p)
         \/ AdminComplete(h, o)
  PROVE  IInv'
<1> USE DEF IInv
<1>1. PICK r \in Requests :
        /\ Arrive(h, r)
        /\ r.order = o
        /\ status[o] # "none"
        /\ ordered' \in {ordered, ordered \cup {o}}
        /\ r.via = "admin" <=> r.event = "complete"
        /\ r.via = "admin" => provider[o] \in AdminProviders /\ o \in ordered'
        /\ r.via = provider[o] => r.event \in Reports(o)
  <2>1. CASE \E event \in Reports(o) : Deliver(h, o, event)
    <3>1. PICK event \in Reports(o) : Deliver(h, o, event)
      BY <2>1
    <3>2. /\ status[o] # "none" /\ provider[o] \in Providers
          /\ event \in {"paid", "failed", "expired"}
      BY DEF Reports, OrderInv, TypeOK, Outcomes
    <3>3. [order |-> o, via |-> provider[o], event |-> event] \in Requests
      BY <3>2 DEF Requests
    <3>4. QED
      BY <3>1, <3>2, <3>3 DEF Deliver, Providers
  <2>2. CASE \E p \in Strangers : DeliverForeign(h, o, p)
    <3>1. PICK p \in Strangers : DeliverForeign(h, o, p)
      BY <2>2
    <3>2. [order |-> o, via |-> p, event |-> "paid"] \in Requests
      BY DEF Requests
    <3>3. p # "admin"
      BY DEF Providers
    <3>4. QED
      BY <3>1, <3>2, <3>3 DEF DeliverForeign
  <2>3. CASE AdminComplete(h, o)
    <3>1. [order |-> o, via |-> "admin", event |-> "complete"] \in Requests
      BY DEF Requests
    <3>2. provider[o] # "admin"
      BY <2>3 DEF AdminComplete, Providers
    <3>3. QED
      BY <2>3, <3>1, <3>2 DEF AdminComplete
  <2>4. QED
    BY <2>1, <2>2, <2>3
<1> USE DEF Arrive
<1>2. TypeOK'
  BY <1>1 DEF TypeOK, Pcs
<1>3. LockInv'
  <2>1. ASSUME NEW g \in Handlers PROVE SameForLocks(g)
    BY <1>1 DEF SameForLocks, TypeOK, Inside, Counted, LockInv, MineInv
  <2>2. QED
    BY <2>1, <1>1, LockFrame
<1>4. OrderInv'
  BY <1>1 DEF TypeOK, OrderInv, Requests, Reports
<1>5. JudgedInv'
  BY <1>1 DEF TypeOK, Requests, JudgedInv, Owns
<1>6. QED
  BY <1>2, <1>3, <1>4, <1>5
-----------------------------------------------------------------------------
LEMMA CreemCheckInv ==
  ASSUME IInv, NEW h \in Handlers, CreemCheck(h)
  PROVE  IInv'
<1> USE DEF IInv
<1>1. PICK l \in {"checked", "leaving"} : pc' = [pc EXCEPT ![h] = l]
  BY DEF CreemCheck
<1>2. TypeOK'
  BY <1>1 DEF CreemCheck, TypeOK, Pcs
<1>3. LockInv'
  BY <1>1, LockStep DEF CreemCheck, Counted
<1>4. OrderInv'
  BY <1>1 DEF CreemCheck, TypeOK, OrderInv, Reports
<1>5. JudgedInv'
  BY <1>1 DEF CreemCheck, TypeOK, JudgedInv, Owns
<1>6. QED
  BY <1>2, <1>3, <1>4, <1>5

LEMMA ReadRowInv ==
  ASSUME IInv, NEW h \in Handlers, ReadRow(h)
  PROVE  IInv'
<1> USE DEF IInv
<1>1. PICK l \in {"granting", "closing", "leaving"} :
        /\ pc' = [pc EXCEPT ![h] = l]
        /\ l = "granting" => Grants(req[h])
        /\ l = "closing" => Closes(req[h])
  BY DEF ReadRow
<1>2. UNCHANGED <<rows, gateway, locks, req, mine, failures>>
  BY DEF ReadRow
<1>3. TypeOK'
  BY <1>1 DEF ReadRow, TypeOK, Pcs
<1>4. LockInv'
  BY <1>1, <1>2, LockStep DEF ReadRow, AtRow, Counted
<1>5. OrderInv'
  BY <1>1, <1>2 DEF ReadRow, AtRow, TypeOK, OrderInv, Reports
<1>6. JudgedInv'
  BY <1>1, <1>2 DEF TypeOK, JudgedInv, Owns, Grants, Closes
<1>7. QED
  BY <1>3, <1>4, <1>5, <1>6

\* A request that is crediting an order excludes every other from it, and
\* only a Waffo or Pancake order is closed without the lock.
LEMMA CommitGrantInv ==
  ASSUME IInv, NEW h \in Handlers, CommitGrant(h)
  PROVE  IInv'
<1> USE DEF IInv
<1>1. TypeOK'
  <2>1. Quota(req[h]) \in Nat
    BY QuotaPositive
  <2>2. Cell(h) \in Orders
    BY DEF TypeOK, Requests
  <2>3. QED
    BY <2>1, <2>2 DEF CommitGrant, TypeOK, Pcs, Statuses
<1>2. LockInv'
  BY LockStep DEF CommitGrant, Counted
<1>3. OrderInv'
  BY DEF CommitGrant, TypeOK, OrderInv, Requests, Reports
<1>4. JudgedInv'
  BY DEF CommitGrant, TypeOK, JudgedInv, Owns, Requests
<1>5. QED
  BY <1>1, <1>2, <1>3, <1>4

LEMMA EpayMarkInv ==
  ASSUME IInv, NEW h \in Handlers, EpayMark(h)
  PROVE  IInv'
<1> USE DEF IInv
<1>1. TypeOK'
  BY DEF EpayMark, TypeOK, Pcs, Statuses, Requests
<1>2. LockInv'
  BY LockStep DEF EpayMark, Counted
<1>3. OrderInv'
  BY DEF EpayMark, TypeOK, OrderInv, Requests, Reports
<1>4. JudgedInv'
  BY DEF EpayMark, TypeOK, JudgedInv, Owns, Requests, TwoWrites
<1>5. QED
  BY <1>1, <1>2, <1>3, <1>4

LEMMA EpayCreditInv ==
  ASSUME IInv, NEW h \in Handlers, EpayCredit(h)
  PROVE  IInv'
<1> USE DEF IInv
<1>1. TypeOK'
  <2>1. Quota(req[h]) \in Nat
    BY QuotaPositive
  <2>2. Cell(h) \in Orders
    BY DEF TypeOK, Requests
  <2>3. QED
    BY <2>1, <2>2 DEF EpayCredit, TypeOK, Pcs
<1>2. LockInv'
  BY LockStep DEF EpayCredit, Counted
<1>3. OrderInv'
  BY DEF EpayCredit, TypeOK, OrderInv, Requests, Reports
<1>4. JudgedInv'
  BY DEF EpayCredit, TypeOK, JudgedInv, Owns
<1>5. QED
  BY <1>1, <1>2, <1>3, <1>4

\* Epay closes no order, so none is closed while its grant is credited.
LEMMA CloseOrderInv ==
  ASSUME IInv, NEW h \in Handlers, CloseOrder(h)
  PROVE  IInv'
<1> USE DEF IInv
<1>1. /\ req[h].event \in {"failed", "expired"}
      /\ req[h].via = provider[Cell(h)]
      /\ provider[Cell(h)] # "epay"
      /\ status[Cell(h)] # "none"
      /\ Cell(h) \in Orders
  <2>1. pc[h] = "closing" /\ Cell(h) \in Orders
    BY DEF CloseOrder, TypeOK, Requests
  <2>2. req[h].event \in {"failed", "expired"} /\ Owns(req[h])
    BY <2>1 DEF JudgedInv
  <2>3. req[h].via # "admin" /\ status[Cell(h)] # "none"
    BY <2>1, <2>2 DEF OrderInv
  <2>4. req[h].via = provider[Cell(h)]
    BY <2>2, <2>3 DEF Owns
  <2>5. provider[Cell(h)] \in {"stripe", "waffo"}
    BY <2>1, <2>2, <2>4 DEF OrderInv, Reports
  <2>6. QED
    BY <2>1, <2>2, <2>3, <2>4, <2>5 DEF OrderInv
<1>2. TypeOK'
  BY <1>1 DEF CloseOrder, TypeOK, Pcs, Statuses, Requests
<1>3. LockInv'
  BY LockStep DEF CloseOrder, Counted
<1>4. OrderInv'
  <2>1. status'[Cell(h)] # "none"
    BY <1>1 DEF CloseOrder, TypeOK
  <2>2. \A o \in Orders : (status'[o] = "none") <=> (status[o] = "none")
    BY <2>1, <1>1 DEF CloseOrder, TypeOK
  <2>3. \A g \in Handlers :
          /\ Cell(g) \in Orders
          /\ (pc'[g] = "idle") <=> (pc[g] = "idle")
    BY DEF CloseOrder, TypeOK, Requests
  <2>4. QED
    BY <2>2, <2>3 DEF CloseOrder, OrderInv, Reports
<1>5. JudgedInv'
  BY <1>1 DEF CloseOrder, TypeOK, JudgedInv, Owns, Requests
<1>6. QED
  BY <1>2, <1>3, <1>4, <1>5

LEMMA WriteFailsInv ==
  ASSUME IInv, NEW h \in Handlers, WriteFails(h)
  PROVE  IInv'
<1> USE DEF IInv
<1>1. TypeOK'
  BY DEF WriteFails, TypeOK, Pcs
<1>2. LockInv'
  BY LockStep DEF WriteFails, Counted
<1>3. OrderInv'
  BY DEF WriteFails, TypeOK, OrderInv, Reports
<1>4. JudgedInv'
  BY DEF WriteFails, TypeOK, JudgedInv, Owns
<1>5. QED
  BY <1>1, <1>2, <1>3, <1>4

\* A request whose read fails has no mutex yet, or goes on to unlock it.
LEMMA ReadFailsInv ==
  ASSUME IInv, NEW h \in Handlers, ReadFails(h)
  PROVE  IInv'
<1> USE DEF IInv
<1>1. PICK l \in {"answer", "leaving"} :
        /\ pc' = [pc EXCEPT ![h] = l]
        /\ l = "answer" => pc[h] = "arrived"
        /\ l = "leaving" => \/ pc[h] = "arrived" /\ ~Locks(req[h])
                            \/ pc[h] \in {"inside", "checked"}
  <2>1. PICK u \in Unread(h) : pc' = [pc EXCEPT ![h] = u.to]
    BY DEF ReadFails
  <2>2. CASE pc[h] = "arrived" /\ req[h].via = "pancake"
    <3>1. u.to = "answer"
      BY <2>2 DEF Unread
    <3>2. QED
      BY <2>1, <2>2, <3>1
  <2>3. CASE ~(pc[h] = "arrived" /\ req[h].via = "pancake")
    <3>1. u.to = "leaving"
      BY <2>3 DEF Unread
    <3>2. \/ pc[h] = "arrived" /\ ~Locks(req[h])
          \/ pc[h] \in {"inside", "checked"}
      BY <2>3 DEF ReadFails
    <3>3. QED
      BY <2>1, <3>1, <3>2
  <2>4. QED
    BY <2>2, <2>3
<1>2. /\ UNCHANGED <<rows, gateway, locks, req, mine, crashes>>
      /\ pc[h] \in {"arrived", "inside", "checked"}
  BY DEF ReadFails
<1>3. TypeOK'
  <2>1. Cell(h) \in Orders
    BY DEF TypeOK, Requests
  <2>2. faults' \in 0..MaxFaults
    BY DEF ReadFails, TypeOK
  <2>3. good' \subseteq Handlers /\ glossed' \subseteq Orders
    BY <2>1 DEF ReadFails, TypeOK
  <2>4. QED
    BY <1>1, <1>2, <2>2, <2>3 DEF TypeOK, Pcs
<1>4. LockInv'
  <2>1. CASE l = "leaving"
    BY <1>1, <1>2, <2>1, LockStep DEF Counted
  <2>2. CASE l = "answer"
    <3>1. ASSUME NEW g \in Handlers PROVE SameForLocks(g)
      BY <1>1, <1>2, <2>2
         DEF SameForLocks, TypeOK, Inside, Counted, LockInv, MineInv
    <3>2. QED
      BY <3>1, <1>2, LockFrame
  <2>3. QED
    BY <2>1, <2>2
<1>5. OrderInv'
  BY <1>1, <1>2 DEF TypeOK, OrderInv, Reports
<1>6. JudgedInv'
  BY <1>1, <1>2 DEF TypeOK, JudgedInv, Owns
<1>7. QED
  BY <1>3, <1>4, <1>5, <1>6

LEMMA AnswerInv ==
  ASSUME IInv, NEW h \in Handlers, Answer(h)
  PROVE  IInv'
<1> USE DEF IInv
<1>1. NoRequest \in Requests /\ req[h] \in Requests
  BY DEF NoRequest, Requests, TypeOK
<1>2. TypeOK'
  BY <1>1 DEF Answer, TypeOK, Pcs, Requests
<1>3. LockInv'
  <2>1. ASSUME NEW g \in Handlers PROVE SameForLocks(g)
    BY DEF Answer, SameForLocks, TypeOK, Inside, Counted, LockInv, MineInv
  <2>2. QED
    BY <2>1, LockFrame DEF Answer
<1>4. OrderInv'
  BY DEF Answer, TypeOK, OrderInv, Reports
<1>5. JudgedInv'
  BY DEF Answer, TypeOK, JudgedInv, Owns
<1>6. QED
  BY <1>2, <1>3, <1>4, <1>5
-----------------------------------------------------------------------------
LEMMA InitInv == Init => IInv
<1> SUFFICES ASSUME Init PROVE IInv
  OBVIOUS
<1> USE DEF Init
<1>1. TypeOK
  BY DEF TypeOK, Statuses, Outcomes, Pcs, NoRequest, Requests
<1>2. MineInv /\ MapInv /\ HeldInv
  BY DEF MineInv, MapInv, HeldInv, Inside, Counted
<1>3. CountInv
  <2>1. \A n \in Nodes, m \in Mutexes : Users(n, m) = {}
    BY DEF Users
  <2>2. QED
    BY <2>1, FS_EmptySet DEF CountInv
<1>4. OrderInv /\ JudgedInv
  BY DEF OrderInv, JudgedInv
<1>5. QED
  BY <1>1, <1>2, <1>3, <1>4 DEF IInv, LockInv

LEMMA NextInv == IInv /\ [Next]_vars => IInv'
<1> SUFFICES ASSUME IInv, [Next]_vars PROVE IInv'
  OBVIOUS
<1>0. CASE PurchasesChange
  BY <1>0, PurchasesChangeInv
<1>1. CASE Environment /\ ~PurchasesChange
  <2>1. PICK o \in Orders :
          \/ \E p \in Providers, isSub \in BOOLEAN : CreateOrder(o, p, isSub)
          \/ CheckoutFails(o)
          \/ \E end \in {"paid", "failed", "expired"} : PaymentEnds(o, end)
          \/ \E h \in Handlers :
               \/ \E event \in Reports(o) : Deliver(h, o, event)
               \/ \E p \in Strangers : DeliverForeign(h, o, p)
               \/ AdminComplete(h, o)
    BY <1>1 DEF Environment
  <2>2. QED
    BY <2>1, CreateOrderInv, CheckoutFailsInv, PaymentEndsInv, ArriveInv
<1>2. ASSUME NEW h \in Handlers,
             Work(h) \/ Acquire(h) \/ WriteFails(h) \/ ReadFails(h)
      PROVE  IInv'
  BY <1>2, EnterLocks, CreemCheckInv, ReadRowInv, CommitGrantInv,
     EpayMarkInv, EpayCreditInv, CloseOrderInv, UnlockLocks, UncountLocks,
     AnswerInv, AcquireLocks, WriteFailsInv, ReadFailsInv DEF Work
<1>3. ASSUME NEW n \in Nodes, Crash(n) PROVE IInv'
  BY <1>3, CrashLocks
<1>4. CASE UNCHANGED vars
  <2>1. TypeOK' /\ OrderInv' /\ JudgedInv'
    BY <1>4 DEF vars, IInv, TypeOK, OrderInv, JudgedInv, Owns, Reports
  <2>2. LockInv'
    BY <1>4, LocksUntouched DEF vars, IInv
  <2>3. QED
    BY <2>1, <2>2 DEF IInv
<1>5. QED
  BY <1>0, <1>1, <1>2, <1>3, <1>4 DEF Next, Environment

LEMMA Invariance == Spec => []IInv
BY InitInv, NextInv, PTL DEF Spec

\* Every variable keeps its range; above all the count of a mutex, which
\* UnlockOrder decreases without looking, never falls below zero.
THEOREM TypeCorrect == Spec => []TypeOK
<1>1. IInv => TypeOK
  BY DEF IInv
<1>2. QED
  BY <1>1, Invariance, PTL

\* No two requests with the lock of one order on one node.
LEMMA Exclusion == IInv => OneInside
<1> SUFFICES ASSUME IInv, NEW g \in Handlers, NEW h \in Handlers, g # h,
                    Node[g] = Node[h], Inside(g), Inside(h),
                    Cell(g) = Cell(h)
             PROVE  FALSE
  BY DEF OneInside
<1>1. mine[g] # None /\ mine[h] # None
  BY DEF IInv, LockInv, MineInv, Inside, Counted
<1>2. mine[g] = mine[h]
  BY <1>1 DEF IInv, LockInv, MapInv
<1>3. QED
  BY <1>2 DEF IInv, LockInv, HeldInv

\* LockOrder and UnlockOrder of controller/topup.go exclude: on any number of
\* nodes, and although the entry of the map is deleted and made again and
\* UnlockOrder does not remember its mutex, no two requests for one order on
\* one node are between them at once.
THEOREM LockOrderExcludes == Spec => []OneInside
BY Exclusion, Invariance, PTL
-----------------------------------------------------------------------------
(***************************************************************************)
(* What is granted.  LockOrder is a lock of one process, so the rest holds *)
(* for one process.  An administrator gives a Creem order more than its    *)
(* webhook: only where administrators leave Creem alone has every order    *)
(* one price.                                                              *)
(***************************************************************************)
OneProcess == \A g, h \in Handlers : Node[g] = Node[h]
CreemLeftAlone == "creem" \notin AdminProviders

\* Requests that have judged the row under the lock.
Judging(h) ==
  \/ pc[h] \in {"granting", "crediting"}
  \/ pc[h] = "closing" /\ Locks(req[h])

LEMMA OneJudge ==
  ASSUME IInv, OneProcess, NEW g \in Handlers, NEW h \in Handlers, g # h,
         Judging(g), Judging(h)
  PROVE  Cell(g) # Cell(h)
<1>1. Inside(g) /\ Inside(h)
  BY DEF Judging, Inside, IInv, JudgedInv, Locks
<1>2. QED
  BY <1>1, Exclusion DEF OneInside, OneProcess

\* An order has one price unless an administrator completes a Creem order.
LEMMA OnePrice ==
  ASSUME IInv, CreemLeftAlone, NEW o \in Orders
  PROVE  Prices(o) = {Bought(o)}
<1>1. CASE ByHand(o)
  <2>1. provider[o] \in Providers \ {"creem"} /\ o \notin sub
    BY <1>1 DEF ByHand, CreemLeftAlone
  <2>2. Bought(o) = ManualQuota(provider[o])
    BY <2>1 DEF Bought, Quota, ManualQuota, Providers
  <2>3. QED
    BY <2>2 DEF Prices
<1>2. CASE ~ByHand(o)
  BY <1>2 DEF Prices
<1>3. QED
  BY <1>1, <1>2

\* A handler that grants gives one of the prices of the order.
LEMMA GrantIsWorth ==
  ASSUME IInv, NEW h \in Handlers, pc[h] \in {"granting", "crediting"}
  PROVE  /\ Cell(h) \in Orders
         /\ status[Cell(h)] # "none"
         /\ Quota(req[h]) \in Prices(Cell(h))
         /\ outcome[Cell(h)] = "paid" \/ Cell(h) \in ordered
<1> USE DEF IInv
<1>1. Cell(h) \in Orders
  BY DEF TypeOK, Requests
<1>2. Owns(req[h]) /\ req[h].event \in {"paid", "complete"}
  BY DEF JudgedInv
<1>3. /\ status[Cell(h)] # "none"
      /\ req[h].via = "admin" <=> req[h].event = "complete"
      /\ req[h].via = "admin" =>
           /\ provider[Cell(h)] \in AdminProviders
           /\ Cell(h) \in ordered
      /\ req[h].via = provider[Cell(h)] => req[h].event \in Reports(Cell(h))
  BY DEF OrderInv
<1>4. CASE req[h].via = "admin"
  <2>1. ByHand(Cell(h))
    BY <1>2, <1>3, <1>4 DEF Owns, ByHand
  <2>2. Quota(req[h]) = ManualQuota(provider[Cell(h)])
    BY <2>1, <1>4 DEF Quota, ByHand
  <2>3. QED
    BY <2>1, <2>2, <1>1, <1>3, <1>4 DEF Prices
<1>5. CASE req[h].via # "admin"
  <2>1. req[h].via = provider[Cell(h)] /\ req[h].event = "paid"
    BY <1>2, <1>3, <1>5 DEF Owns
  <2>2. Quota(req[h]) = Bought(Cell(h))
    BY <2>1 DEF Quota, Bought
  <2>3. outcome[Cell(h)] = "paid"
    BY <2>1, <1>3 DEF Reports
  <2>4. QED
    BY <2>2, <2>3, <1>1, <1>3 DEF Prices
<1>6. QED
  BY <1>4, <1>5

\* Only CommitGrant and EpayCredit grant: every other step is of this kind,
\* and who begins to judge has found the order pending.
NoGrant ==
  /\ granted' = granted
  /\ ordered \subseteq ordered'
  /\ \A o \in Orders :
       /\ outcome[o] = "paid" => outcome'[o] = "paid"
       /\ status[o] # "none" =>
            /\ provider'[o] = provider[o]
            /\ (o \in sub') <=> (o \in sub)
            /\ status'[o] = "pending" => status[o] = "pending"
            /\ status'[o] # "none"
  /\ \A h \in Handlers : Judging(h)' =>
       \/ Judging(h) /\ req'[h] = req[h]
       \/ status[req'[h].order] = "pending" /\ req'[h].order \in Orders

LEMMA GrantFrame ==
  ASSUME IInv, GrantInv, NoGrant
  PROVE  GrantInv'
<1>1. ASSUME NEW o \in Orders, granted'[o] # 0
      PROVE  /\ granted'[o] \in Prices(o)'
             /\ status'[o] \notin {"none", "pending"}
             /\ outcome'[o] = "paid" \/ o \in ordered'
  <2>1. /\ granted[o] \in Prices(o)
        /\ status[o] \notin {"none", "pending"}
        /\ outcome[o] = "paid" \/ o \in ordered
    BY <1>1 DEF GrantInv, NoGrant
  <2>2. Bought(o)' = Bought(o)
    BY <2>1 DEF NoGrant, Bought, Quota, ManualQuota
  <2>3. ByHand(o) => ByHand(o)'
    BY <2>1 DEF NoGrant, ByHand
  <2>4. granted'[o] \in Prices(o)'
    BY <2>1, <2>2, <2>3 DEF NoGrant, Prices, ManualQuota
  <2>5. QED
    BY <2>1, <2>4 DEF NoGrant
<1>2. ASSUME NEW h \in Handlers, Judging(h)'
      PROVE  granted'[req'[h].order] = 0
  BY <1>2 DEF GrantInv, NoGrant, Judging
<1>3. QED
  BY <1>1, <1>2 DEF GrantInv, Judging

LEMMA QuietSteps ==
  ASSUME IInv, [Next]_vars
  PROVE  NoGrant \/ \E h \in Handlers : CommitGrant(h) \/ EpayCredit(h)
<1> USE DEF IInv
<1>1. \A h \in Handlers : Cell(h) \in Orders
  BY DEF TypeOK, Requests
<1>2. ASSUME NEW o \in Orders, NEW p \in Providers, NEW isSub \in BOOLEAN,
             CreateOrder(o, p, isSub)
      PROVE  NoGrant
  BY <1>2 DEF CreateOrder, NoGrant, TypeOK, Judging
<1>3. ASSUME NEW o \in Orders, CheckoutFails(o) PROVE NoGrant
  BY <1>3 DEF CheckoutFails, NoGrant, TypeOK, Judging
<1>4. ASSUME NEW o \in Orders, NEW end, PaymentEnds(o, end) PROVE NoGrant
  BY <1>4 DEF PaymentEnds, NoGrant, TypeOK, Judging
<1>5. ASSUME NEW o \in Orders, NEW h \in Handlers,
             \/ \E event \in Reports(o) : Deliver(h, o, event)
             \/ \E p \in Strangers : DeliverForeign(h, o, p)
             \/ AdminComplete(h, o)
      PROVE  NoGrant
  BY <1>5 DEF Deliver, DeliverForeign, AdminComplete, Arrive, NoGrant, TypeOK,
              Judging
<1>6. ASSUME NEW h \in Handlers, EnterLockOrder(h) PROVE NoGrant
  BY <1>6 DEF EnterLockOrder, NoGrant, TypeOK, Judging
<1>7. ASSUME NEW h \in Handlers, CreemCheck(h) PROVE NoGrant
  BY <1>7 DEF CreemCheck, NoGrant, TypeOK, Judging
<1>8. ASSUME NEW h \in Handlers, ReadRow(h) PROVE NoGrant
  BY <1>1, <1>8 DEF ReadRow, NoGrant, TypeOK, Judging, Grants, Closes
<1>9. ASSUME NEW h \in Handlers, EpayMark(h) PROVE NoGrant
  BY <1>1, <1>9 DEF EpayMark, NoGrant, TypeOK, Judging
<1>10. ASSUME NEW h \in Handlers, CloseOrder(h) PROVE NoGrant
  <2>1. req[h].event \in {"failed", "expired"}
    BY <1>10 DEF CloseOrder, JudgedInv
  <2>2. QED
    BY <1>1, <1>10, <2>1 DEF CloseOrder, NoGrant, TypeOK, Judging
<1>11. ASSUME NEW h \in Handlers, Unlock(h) \/ Uncount(h) \/ Acquire(h)
       PROVE  NoGrant
  BY <1>11 DEF Unlock, Uncount, Acquire, NoGrant, TypeOK, Judging
<1>12. ASSUME NEW h \in Handlers, Answer(h) \/ WriteFails(h) PROVE NoGrant
  BY <1>12 DEF Answer, WriteFails, NoGrant, TypeOK, Judging
<1>16. ASSUME NEW h \in Handlers, ReadFails(h) PROVE NoGrant
  BY <1>16 DEF ReadFails, Unread, NoGrant, TypeOK, Judging
<1>17. CASE PurchasesChange
  BY <1>17 DEF PurchasesChange, NoGrant, Judging
<1>13. ASSUME NEW n \in Nodes, Crash(n) PROVE NoGrant
  BY <1>13 DEF Crash, NoGrant, TypeOK, Judging
<1>14. CASE UNCHANGED vars
  BY <1>14 DEF vars, NoGrant, TypeOK, Judging
<1>15. QED
  BY <1>2, <1>3, <1>4, <1>5, <1>6, <1>7, <1>8, <1>9, <1>10, <1>11, <1>12,
     <1>13, <1>14, <1>16, <1>17 DEF Next, Environment, Work

\* A grant: the order was approved and not yet granted, no other request is
\* about to judge it, and it gets one of its prices.
Granting(h) ==
  LET o == Cell(h)
  IN /\ o \in Orders
     /\ status[o] # "none"
     /\ outcome[o] = "paid" \/ o \in ordered
     /\ granted[o] = 0
     /\ Quota(req[h]) \in Prices(o)
     /\ granted' = [granted EXCEPT ![o] = Quota(req[h])]
     /\ status'[o] = "success"
     /\ \A p \in Orders \ {o} : status'[p] = status[p]
     /\ UNCHANGED <<provider, sub, gateway, req>>
     /\ \A g \in Handlers : Judging(g)' => g # h /\ Judging(g) /\ Cell(g) # o

LEMMA GrantSteps ==
  ASSUME IInv, GrantInv, OneProcess, NEW h \in Handlers,
         CommitGrant(h) \/ EpayCredit(h)
  PROVE  Granting(h)
<1> DEFINE o == Cell(h)
<1>1. pc[h] \in {"granting", "crediting"}
  BY DEF CommitGrant, EpayCredit
<1>2. /\ o \in Orders /\ status[o] # "none" /\ Quota(req[h]) \in Prices(o)
      /\ outcome[o] = "paid" \/ o \in ordered
  BY <1>1, GrantIsWorth
<1>3. granted[o] = 0
  BY <1>1 DEF GrantInv
<1>4. Quota(req[h]) \in Nat
  BY QuotaPositive
<1>5. granted' = [granted EXCEPT ![o] = Quota(req[h])]
  BY <1>2, <1>3, <1>4 DEF CommitGrant, EpayCredit, IInv, TypeOK
<1>6. status'[o] = "success" /\ \A p \in Orders \ {o} : status'[p] = status[p]
  BY <1>2 DEF CommitGrant, EpayCredit, IInv, TypeOK, JudgedInv
<1>7. \A g \in Handlers : Judging(g)' => g # h /\ Judging(g)
  BY DEF CommitGrant, EpayCredit, IInv, TypeOK, Judging
<1>8. Judging(h)
  BY <1>1 DEF Judging
<1>9. \A g \in Handlers : Judging(g)' => Cell(g) # o
  BY <1>7, <1>8, OneJudge
<1>10. UNCHANGED <<provider, sub, gateway, req>>
  BY DEF CommitGrant, EpayCredit
<1>11. QED
  BY <1>2, <1>3, <1>5, <1>6, <1>7, <1>9, <1>10 DEF Granting

LEMMA GrantStepInv ==
  ASSUME IInv, GrantInv, NEW h \in Handlers, Granting(h)
  PROVE  GrantInv'
<1> DEFINE o == Cell(h)
<1> USE DEF Granting
<1>1. \A p : Prices(p)' = Prices(p)
  BY DEF Prices, ByHand, Bought, Quota, ManualQuota
<1>2. ASSUME NEW p \in Orders, granted'[p] # 0
      PROVE  /\ granted'[p] \in Prices(p)'
             /\ status'[p] \notin {"none", "pending"}
             /\ outcome'[p] = "paid" \/ p \in ordered'
  BY <1>1, <1>2 DEF GrantInv, IInv, TypeOK
<1>3. ASSUME NEW g \in Handlers, Judging(g)'
      PROVE  granted'[Cell(g)'] = 0
  BY <1>3 DEF GrantInv, IInv, TypeOK, Judging
<1>4. QED
  BY <1>2, <1>3 DEF GrantInv, Judging

LEMMA GrantedInvariance ==
  ASSUME OneProcess
  PROVE  Spec => [](IInv /\ GrantInv)
<1>1. Init => GrantInv
  BY DEF Init, GrantInv
<1>2. ASSUME IInv, GrantInv, [Next]_vars
      PROVE  GrantInv'
  BY <1>2, QuietSteps, GrantFrame, GrantSteps, GrantStepInv
<1>3. QED
  BY <1>1, <1>2, InitInv, NextInv, PTL DEF Spec

\* What an order was granted stays: no step grants it again.
GrantIsTheLast ==
  [][\A o \in Orders : granted[o] # 0 => granted'[o] = granted[o]]_vars

\* One process, whatever is delivered, repeated, lost with a crash, confirmed
\* by strangers or completed by hand, a Creem order too: no order is granted
\* a second time, and what it got is one of its prices.
THEOREM OrdersGetOneGrant ==
  ASSUME OneProcess
  PROVE  Spec => /\ [](\A o \in Orders : granted[o] \in {0} \cup Prices(o))
                 /\ GrantIsTheLast
<1>1. GrantInv => \A o \in Orders : granted[o] \in {0} \cup Prices(o)
  BY DEF GrantInv
<1>2. ASSUME IInv, GrantInv, [Next]_vars
      PROVE  \A o \in Orders : granted[o] # 0 => granted'[o] = granted[o]
  <2>1. CASE NoGrant
    BY <2>1 DEF NoGrant
  <2>2. ASSUME NEW h \in Handlers, CommitGrant(h) \/ EpayCredit(h)
        PROVE  \A o \in Orders : granted[o] # 0 => granted'[o] = granted[o]
    BY <1>2, <2>2, GrantSteps DEF Granting, IInv, TypeOK
  <2>3. QED
    BY <1>2, <2>1, <2>2, QuietSteps
<1>3. QED
  BY <1>1, <1>2, GrantedInvariance, PTL DEF Spec, GrantIsTheLast

\* One process whose administrators leave Creem alone: every order is granted
\* at most once and for what it is worth.
THEOREM OrdersAreGrantedOnce ==
  ASSUME OneProcess, CreemLeftAlone
  PROVE  Spec => []GrantedOnce
<1>1. IInv /\ GrantInv => GrantedOnce
  BY OnePrice DEF GrantInv, GrantedOnce
<1>2. QED
  BY <1>1, GrantedInvariance, PTL
-----------------------------------------------------------------------------
(***************************************************************************)
(* The refinement of Ledger: creating an order, ending a payment well or   *)
(* asking for its completion, and granting are its three steps, and all    *)
(* other steps stutter.                                                    *)
(***************************************************************************)
Worth == [o \in Orders |-> IF status[o] = "none" THEN 0 ELSE Bought(o)]
Approved == {o \in Orders : outcome[o] = "paid"} \cup ordered

LEMMA LedgerInit == Init => ledger!Init
BY DEF Init, ledger!Init

\* Steps that neither create, approve nor grant.
LEMMA LedgerStutter ==
  ASSUME UNCHANGED <<Approved, granted, provider, sub>>,
         \A o \in Orders : (status'[o] = "none") <=> (status[o] = "none")
  PROVE  UNCHANGED ledger!vars
<1>1. Worth' = Worth
  BY DEF Worth, Bought, Quota, ManualQuota
<1>2. QED
  BY <1>1 DEF Worth, Approved, ledger!vars

LEMMA LedgerCreate ==
  ASSUME IInv, NEW o \in Orders, NEW p \in Providers, NEW isSub \in BOOLEAN,
         CreateOrder(o, p, isSub)
  PROVE  ledger!Create(o)
<1>1. Bought(o)' \in Nat \ {0}
  BY QuotaPositive DEF Bought, Quota, ManualQuota
<1>2. Worth'[o] = Bought(o)' /\ Worth[o] = 0
  BY DEF Worth, CreateOrder, IInv, TypeOK
<1>3. \A q \in Orders \ {o} : Worth'[q] = Worth[q]
  BY DEF Worth, CreateOrder, IInv, TypeOK, Bought, Quota, ManualQuota
<1>4. Worth' = [Worth EXCEPT ![o] = Worth'[o]]
  BY <1>3 DEF Worth
<1>5. QED
  BY <1>1, <1>2, <1>4 DEF Worth, CreateOrder, ledger!Create

LEMMA LedgerApprove ==
  ASSUME IInv, NEW o \in Orders, status[o] # "none",
         Approved' = Approved \cup {o}, UNCHANGED rows
  PROVE  ledger!Approve(o)
<1>1. Bought(o) \in Nat \ {0}
  BY QuotaPositive DEF Bought
<1>2. Worth' = Worth
  BY DEF Worth, Bought, Quota, ManualQuota
<1>3. QED
  BY <1>1, <1>2 DEF Worth, Approved, ledger!Approve

LEMMA LedgerGrant ==
  ASSUME IInv, CreemLeftAlone, NEW h \in Handlers, Granting(h)
  PROVE  ledger!Grant(Cell(h))
<1> USE DEF Granting
<1>1. \A o \in Orders : (status'[o] = "none") <=> (status[o] = "none")
  OBVIOUS
<1>2. Worth' = Worth
  BY <1>1 DEF Worth, Bought, Quota, ManualQuota
<1>3. Worth[Cell(h)] = Quota(req[h])
  BY OnePrice DEF Worth
<1>4. QED
  BY <1>2, <1>3 DEF Worth, ledger!Grant

LEMMA LedgerEnvironment ==
  ASSUME IInv, Environment
  PROVE  (\E o \in Orders : ledger!Create(o) \/ ledger!Approve(o))
           \/ UNCHANGED ledger!vars
<1>1. ASSUME NEW o \in Orders, NEW p \in Providers, NEW isSub \in BOOLEAN,
             CreateOrder(o, p, isSub)
      PROVE  ledger!Create(o)
  BY <1>1, LedgerCreate
<1>2. ASSUME NEW o \in Orders, CheckoutFails(o)
      PROVE  UNCHANGED ledger!vars
  <2>1. Approved' = Approved
    BY <1>2 DEF CheckoutFails, Approved, IInv, TypeOK
  <2>2. status[o] # "none"
    BY <1>2 DEF CheckoutFails, IInv, OrderInv
  <2>3. \A q \in Orders : (status'[q] = "none") <=> (status[q] = "none")
    BY <2>2, <1>2 DEF CheckoutFails, IInv, TypeOK
  <2>4. QED
    BY <2>1, <2>3, <1>2, LedgerStutter DEF CheckoutFails
<1>3. ASSUME NEW o \in Orders, PaymentEnds(o, "paid")
      PROVE  ledger!Approve(o)
  <2>1. Approved' = Approved \cup {o}
    BY <1>3 DEF PaymentEnds, Approved, IInv, TypeOK
  <2>2. QED
    BY <2>1, <1>3, LedgerApprove DEF PaymentEnds
<1>4. ASSUME NEW o \in Orders, NEW end \in {"failed", "expired"},
             PaymentEnds(o, end)
      PROVE  UNCHANGED ledger!vars
  <2>1. Approved' = Approved
    BY <1>4 DEF PaymentEnds, Approved, IInv, TypeOK
  <2>2. QED
    BY <2>1, <1>4, LedgerStutter DEF PaymentEnds
<1>5. ASSUME NEW o \in Orders, NEW h \in Handlers,
             \/ \E event \in Reports(o) : Deliver(h, o, event)
             \/ \E p \in Strangers : DeliverForeign(h, o, p)
      PROVE  UNCHANGED ledger!vars
  <2>1. Approved' = Approved /\ UNCHANGED rows
    BY <1>5 DEF Deliver, DeliverForeign, Arrive, Approved
  <2>2. QED
    BY <2>1, LedgerStutter
<1>6. ASSUME NEW o \in Orders, NEW h \in Handlers, AdminComplete(h, o)
      PROVE  ledger!Approve(o)
  <2>1. Approved' = Approved \cup {o} /\ UNCHANGED rows
    BY <1>6 DEF AdminComplete, Arrive, Approved
  <2>2. QED
    BY <2>1, <1>6, LedgerApprove DEF AdminComplete
<1>7. CASE PurchasesChange
  BY <1>7, LedgerStutter DEF PurchasesChange, Approved
<1>8. QED
  BY <1>1, <1>2, <1>3, <1>4, <1>5, <1>6, <1>7 DEF Environment

LEMMA LedgerHandler ==
  ASSUME IInv, NEW h \in Handlers,
         Work(h) \/ Acquire(h) \/ WriteFails(h) \/ ReadFails(h)
  PROVE  CommitGrant(h) \/ EpayCredit(h) \/ UNCHANGED ledger!vars
<1>1. CASE EpayMark(h) \/ CloseOrder(h)
  <2>1. status[Cell(h)] # "none"
    BY <1>1 DEF EpayMark, CloseOrder, IInv, OrderInv
  <2>2. status'[Cell(h)] # "none"
    BY <1>1 DEF EpayMark, CloseOrder, IInv, TypeOK, Requests, JudgedInv
  <2>3. \A o \in Orders : (status'[o] = "none") <=> (status[o] = "none")
    BY <2>1, <2>2, <1>1 DEF EpayMark, CloseOrder, IInv, TypeOK
  <2>4. QED
    BY <2>3, <1>1, LedgerStutter DEF EpayMark, CloseOrder, Approved
<1>2. CASE UNCHANGED <<rows, outcome, ordered>>
  BY <1>2, LedgerStutter DEF Approved
<1>3. \/ CommitGrant(h) \/ EpayCredit(h) \/ EpayMark(h) \/ CloseOrder(h)
      \/ UNCHANGED <<rows, outcome, ordered>>
  BY DEF Work, Acquire, WriteFails, ReadFails, EnterLockOrder, CreemCheck,
         ReadRow, Unlock, Uncount, Answer
<1>4. QED
  BY <1>1, <1>2, <1>3

\* One process: however requests, crashes and failed writes interleave, the
\* payment code only ever takes the steps of Ledger.
THEOREM ImplementsLedger ==
  ASSUME OneProcess, CreemLeftAlone
  PROVE  Spec => LedgerSpec
<1>1. ASSUME IInv, GrantInv, [Next]_vars
      PROVE  [ledger!Next]_(ledger!vars)
  <2> USE <1>1
  <2>1. CASE Environment
    BY <2>1, LedgerEnvironment DEF ledger!Next
  <2>2. ASSUME NEW h \in Handlers,
               Work(h) \/ Acquire(h) \/ WriteFails(h) \/ ReadFails(h)
        PROVE  [ledger!Next]_(ledger!vars)
    <3>1. CASE CommitGrant(h) \/ EpayCredit(h)
      <4>1. Granting(h)
        BY <3>1, GrantSteps
      <4>2. ledger!Grant(Cell(h)) /\ Cell(h) \in Orders
        BY <4>1, LedgerGrant DEF Granting
      <4>3. QED
        BY <4>2 DEF ledger!Next
    <3>2. QED
      BY <3>1, <2>2, LedgerHandler
  <2>3. ASSUME NEW n \in Nodes, Crash(n)
        PROVE  UNCHANGED ledger!vars
    BY <2>3, LedgerStutter DEF Crash, Approved
  <2>4. CASE UNCHANGED vars
    BY <2>4, LedgerStutter DEF vars, Approved
  <2>5. QED
    BY <2>1, <2>2, <2>3, <2>4 DEF Next
<1>2. QED
  BY <1>1, LedgerInit, GrantedInvariance, PTL DEF Spec, LedgerSpec, ledger!Spec
-----------------------------------------------------------------------------
(***************************************************************************)
(* What the row of an order says.                                          *)
(***************************************************************************)
GrantedRow(o) ==
  granted[o] > 0 =>
    \/ status[o] = "success"
    \/ provider[o] = "waffo"
    \/ provider[o] = "pancake" /\ o \in ordered

Crediting(o) == \E h \in Handlers : pc[h] = "crediting" /\ Cell(h) = o

UngrantedRow(o) ==
  status[o] = "success" /\ granted[o] = 0 =>
    /\ provider[o] = "epay" /\ o \notin sub
    /\ Crediting(o) \/ faults + crashes > 0

LEMMA RowParts ==
  RowTellsGrant <=> \A o \in Orders : GrantedRow(o) /\ UngrantedRow(o)
BY DEF RowTellsGrant, GrantedRow, UngrantedRow, Crediting

LEMMA SumGrows ==
  ASSUME NEW a \in Nat, NEW b \in Nat, NEW c \in Nat, NEW d \in Nat,
         c >= a, d >= b, a + b > 0
  PROVE  c + d > 0
OBVIOUS

\* A step that leaves a row alone keeps its truth if nobody stops crediting
\* it, or somebody failed to.
LEMMA RowFrame ==
  ASSUME IInv, NEW o \in Orders, GrantedRow(o), UngrantedRow(o),
         provider'[o] = provider[o], status'[o] = status[o],
         granted'[o] = granted[o], (o \in sub') <=> (o \in sub),
         ordered \subseteq ordered',
         faults' \in Nat, crashes' \in Nat,
         faults' >= faults, crashes' >= crashes,
         faults' + crashes' > 0 \/ (Crediting(o) => Crediting(o)')
  PROVE  GrantedRow(o)' /\ UngrantedRow(o)'
<1>1. GrantedRow(o)'
  BY DEF GrantedRow
<1>2. UngrantedRow(o)'
  <2>1. faults \in Nat /\ crashes \in Nat
    BY DEF IInv, TypeOK
  <2>2. faults + crashes > 0 => faults' + crashes' > 0
    BY <2>1, SumGrows
  <2>3. QED
    BY <2>2 DEF UngrantedRow
<1>3. QED
  BY <1>1, <1>2

\* Who is crediting goes on to, unless it is the request that moves.
LEMMA CreditingStays ==
  ASSUME IInv, NEW h \in Handlers, NEW o \in Orders,
         \A g \in Handlers \ {h} : pc'[g] = pc[g] /\ req'[g] = req[g],
         pc[h] # "crediting" \/ Cell(h) # o
  PROVE  Crediting(o) => Crediting(o)'
BY DEF Crediting

LEMMA RowEnvironment ==
  ASSUME IInv, GrantInv, Environment, NEW o \in Orders,
         GrantedRow(o), UngrantedRow(o)
  PROVE  GrantedRow(o)' /\ UngrantedRow(o)'
<1>0. /\ faults' = faults /\ faults \in Nat
      /\ crashes' = crashes /\ crashes \in Nat
  BY DEF Environment, PurchasesChange, CreateOrder, CheckoutFails,
         PaymentEnds, Deliver, DeliverForeign, AdminComplete, Arrive, IInv,
         TypeOK
<1>1. ASSUME NEW q \in Orders, NEW p \in Providers, NEW isSub \in BOOLEAN,
             CreateOrder(q, p, isSub)
      PROVE  GrantedRow(o)' /\ UngrantedRow(o)'
  <2>1. CASE q = o
    <3>1. status'[o] = "pending" /\ granted'[o] = 0
      BY <1>1, <2>1 DEF CreateOrder, IInv, TypeOK, OrderInv
    <3>2. QED
      BY <3>1 DEF GrantedRow, UngrantedRow
  <2>2. CASE q # o
    <3>1. /\ provider'[o] = provider[o] /\ status'[o] = status[o]
          /\ granted' = granted /\ ordered' = ordered
          /\ (o \in sub') <=> (o \in sub)
      BY <1>1, <2>2 DEF CreateOrder, IInv, TypeOK
    <3>2. Crediting(o)' <=> Crediting(o)
      BY <1>1 DEF CreateOrder, Crediting
    <3>3. QED
      BY <1>0, <3>1, <3>2, RowFrame
  <2>3. QED
    BY <2>1, <2>2
<1>2. ASSUME NEW q \in Orders, CheckoutFails(q)
      PROVE  GrantedRow(o)' /\ UngrantedRow(o)'
  <2>1. CASE q = o
    <3>1. granted[o] # 0 => o \in ordered /\ status[o] # "pending"
      BY <1>2, <2>1 DEF CheckoutFails, GrantInv
    <3>2. QED
      BY <1>2, <2>1, <3>1
         DEF CheckoutFails, IInv, TypeOK, GrantedRow, UngrantedRow
  <2>2. CASE q # o
    BY <1>0, <1>2, <2>2, RowFrame DEF CheckoutFails, IInv, TypeOK, Crediting
  <2>3. QED
    BY <2>1, <2>2
<1>3. ASSUME NEW q \in Orders, NEW end, PaymentEnds(q, end)
      PROVE  GrantedRow(o)' /\ UngrantedRow(o)'
  BY <1>0, <1>3, RowFrame DEF PaymentEnds, Crediting
<1>4. ASSUME NEW q \in Orders, NEW h \in Handlers,
             \/ \E event \in Reports(q) : Deliver(h, q, event)
             \/ \E p \in Strangers : DeliverForeign(h, q, p)
             \/ AdminComplete(h, q)
      PROVE  GrantedRow(o)' /\ UngrantedRow(o)'
  <2>1. /\ UNCHANGED rows /\ ordered \subseteq ordered'
        /\ pc[h] = "idle"
        /\ \A g \in Handlers \ {h} : pc'[g] = pc[g] /\ req'[g] = req[g]
    BY <1>4 DEF Deliver, DeliverForeign, AdminComplete, Arrive, IInv, TypeOK
  <2>2. Crediting(o) => Crediting(o)'
    BY <2>1, CreditingStays
  <2>3. QED
    BY <1>0, <2>1, <2>2, RowFrame
<1>5. CASE PurchasesChange
  <2>1. UNCHANGED <<provider, sub, status, granted, ordered, pc, req>>
    BY <1>5 DEF PurchasesChange
  <2>2. QED
    BY <1>0, <2>1, RowFrame DEF Crediting
<1>6. QED
  BY <1>1, <1>2, <1>3, <1>4, <1>5 DEF Environment

LEMMA RowHandler ==
  ASSUME IInv, GrantInv, OneProcess,
         NEW h \in Handlers,
         Work(h) \/ Acquire(h) \/ WriteFails(h) \/ ReadFails(h),
         NEW o \in Orders, GrantedRow(o), UngrantedRow(o)
  PROVE  GrantedRow(o)' /\ UngrantedRow(o)'
<1>1. \A g \in Handlers \ {h} : pc'[g] = pc[g] /\ req'[g] = req[g]
  BY DEF Work, Acquire, WriteFails, ReadFails, EnterLockOrder, CreemCheck,
         ReadRow, CommitGrant, EpayMark, EpayCredit, CloseOrder, Unlock,
         Uncount, Answer, IInv, TypeOK
<1>2. /\ ordered' = ordered
      /\ faults \in Nat /\ crashes \in Nat /\ crashes' = crashes
      /\ faults' \in Nat /\ faults' >= faults
  BY DEF Work, Acquire, WriteFails, ReadFails, EnterLockOrder, CreemCheck,
         ReadRow, CommitGrant, EpayMark, EpayCredit, CloseOrder, Unlock,
         Uncount, Answer, IInv, TypeOK
<1>3. CASE CommitGrant(h) \/ EpayCredit(h)
  <2>1. Granting(h)
    BY <1>3, GrantSteps
  <2>2. CASE Cell(h) = o
    <3>1. status'[o] = "success" /\ granted'[o] = Quota(req[h])
      BY <2>1, <2>2 DEF Granting, IInv, TypeOK
    <3>2. granted'[o] # 0
      BY <3>1, QuotaPositive
    <3>3. QED
      BY <3>1, <3>2 DEF GrantedRow, UngrantedRow
  <2>3. CASE Cell(h) # o
    <3>1. Crediting(o) => Crediting(o)'
      BY <2>3, <1>1, CreditingStays
    <3>2. granted'[o] = granted[o] /\ status'[o] = status[o]
      BY <2>1, <2>3 DEF Granting, IInv, TypeOK
    <3>3. QED
      <4> HIDE DEF Cell
      <4>1. UNCHANGED <<provider, sub, ordered>>
        BY <2>1 DEF Granting
      <4>2. crashes' \in Nat /\ crashes' >= crashes
        BY <1>2
      <4>3. QED
        BY <4>1, <4>2, <3>1, <3>2, <1>2, RowFrame
  <2>4. QED
    BY <2>2, <2>3
<1>4. CASE EpayMark(h)
  <2>1. CASE Cell(h) = o
    <3>1. status'[o] = "success"
      BY <1>4, <2>1 DEF EpayMark, IInv, TypeOK
    <3>2. Crediting(o)'
      BY <1>4, <2>1 DEF EpayMark, IInv, TypeOK, Crediting
    <3>3. provider[o] = "epay" /\ o \notin sub
      BY <1>4, <2>1 DEF EpayMark, TwoWrites, IInv, JudgedInv, Owns
    <3>4. QED
      BY <1>4, <3>1, <3>2, <3>3 DEF EpayMark, GrantedRow, UngrantedRow
  <2>2. CASE Cell(h) # o
    <3>1. Crediting(o) => Crediting(o)'
      BY <2>2, <1>1, CreditingStays
    <3>2. status'[o] = status[o] /\ UNCHANGED <<provider, sub, granted>>
      BY <1>4, <2>2 DEF EpayMark, IInv, TypeOK
    <3>3. QED
      BY <3>1, <3>2, <1>2, RowFrame
  <2>3. QED
    BY <2>1, <2>2
<1>5. CASE CloseOrder(h)
  <2>1. CASE Cell(h) = o
    <3>1. /\ req[h].event \in {"failed", "expired"} /\ Owns(req[h])
          /\ pc[h] = "closing"
      BY <1>5 DEF CloseOrder, IInv, JudgedInv
    <3>2. Locks(req[h]) => granted[o] = 0
      BY <2>1, <3>1 DEF GrantInv
    <3>3. ~Locks(req[h]) => provider[o] = "waffo"
      BY <2>1, <3>1 DEF Locks, Owns
    <3>4. status'[o] # "success" /\ UNCHANGED <<provider, sub, granted>>
      BY <1>5, <2>1, <3>1 DEF CloseOrder, IInv, TypeOK
    <3>5. QED
      BY <3>2, <3>3, <3>4 DEF GrantedRow, UngrantedRow
  <2>2. CASE Cell(h) # o
    <3>1. Crediting(o) => Crediting(o)'
      BY <2>2, <1>1, CreditingStays
    <3>2. status'[o] = status[o] /\ UNCHANGED <<provider, sub, granted>>
      BY <1>5, <2>2 DEF CloseOrder, IInv, TypeOK
    <3>3. QED
      BY <3>1, <3>2, <1>2, RowFrame
  <2>3. QED
    BY <2>1, <2>2
<1>6. CASE WriteFails(h)
  <2>1. faults' + crashes' > 0 /\ crashes' >= crashes
    BY <1>6, <1>2 DEF WriteFails
  <2>2. UNCHANGED <<provider, sub, status, granted>>
    BY <1>6 DEF WriteFails
  <2>3. QED
    BY <2>1, <2>2, <1>2, RowFrame
<1>7. CASE UNCHANGED rows /\ pc[h] # "crediting"
  <2>1. Crediting(o) => Crediting(o)'
    BY <1>7, <1>1, CreditingStays
  <2>2. QED
    BY <1>7, <2>1, <1>2, RowFrame
<1>8. \/ CommitGrant(h) \/ EpayCredit(h) \/ EpayMark(h) \/ CloseOrder(h)
      \/ WriteFails(h)
      \/ UNCHANGED rows /\ pc[h] # "crediting"
  BY DEF Work, Acquire, ReadFails, EnterLockOrder, CreemCheck, ReadRow,
         AtRow, Unlock, Uncount, Answer
<1>9. QED
  BY <1>3, <1>4, <1>5, <1>6, <1>7, <1>8

\* One process: the row of an order and what was granted for it agree after
\* every crash and failed write, except where EpayNotify was interrupted
\* between its two writes or an order was closed without the lock.
THEOREM RowsTellTheTruth ==
  ASSUME OneProcess
  PROVE  Spec => []RowTellsGrant
<1>1. Init => RowTellsGrant
  BY DEF Init, RowTellsGrant
<1>2. ASSUME IInv, GrantInv, RowTellsGrant, [Next]_vars
      PROVE  RowTellsGrant'
  <2> SUFFICES ASSUME NEW o \in Orders
               PROVE  GrantedRow(o)' /\ UngrantedRow(o)'
    BY RowParts DEF RowTellsGrant, GrantedRow, UngrantedRow, Crediting
  <2>1. GrantedRow(o) /\ UngrantedRow(o)
    BY <1>2, RowParts
  <2>2. CASE Environment
    BY <1>2, <2>1, <2>2, RowEnvironment
  <2>3. ASSUME NEW h \in Handlers,
               Work(h) \/ Acquire(h) \/ WriteFails(h) \/ ReadFails(h)
        PROVE  GrantedRow(o)' /\ UngrantedRow(o)'
    BY <1>2, <2>1, <2>3, RowHandler
  <2>4. ASSUME NEW n \in Nodes, Crash(n)
        PROVE  GrantedRow(o)' /\ UngrantedRow(o)'
    <3>1. /\ UNCHANGED <<rows, ordered, faults>> /\ faults \in Nat
          /\ crashes \in Nat /\ crashes' = crashes + 1
      BY <1>2, <2>4 DEF Crash, IInv, TypeOK
    <3>2. QED
      BY <1>2, <2>1, <3>1, RowFrame
  <2>5. CASE UNCHANGED vars
    <3>1. faults \in Nat /\ crashes \in Nat
      BY <1>2 DEF IInv, TypeOK
    <3>2. QED
      BY <1>2, <2>1, <2>5, <3>1, RowFrame DEF vars, Crediting
  <2>6. QED
    BY <1>2, <2>2, <2>3, <2>4, <2>5 DEF Next
<1>3. QED
  BY <1>1, <1>2, GrantedInvariance, PTL DEF Spec
=============================================================================
