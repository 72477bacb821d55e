-------------------------- MODULE ChannelTestProofs --------------------------
(***************************************************************************)
(* Theorems about the channel test dialog, for any number of models, ways, *)
(* batches and any width of a group: type correctness, that what the       *)
(* dialog shows is true, and that a stop is kept.                          *)
(*                                                                         *)
(* The inductive invariant says which tests a batch has under way          *)
(* (FlightInv), that a live batch has something left to do and counts it   *)
(* right (BatchInv), that the dialog says it is stopping only while the    *)
(* flag is raised (StopInv), and that without overlaps there is one live   *)
(* batch, which finds the flag raised if it was abandoned (LoneInv).       *)
(***************************************************************************)
EXTENDS ChannelTest, FiniteSetTheorems, TLAPS

Flights(b) == {f \in inFlight : f.run = b}

FlightInv ==
  \A f \in inFlight : f.run # Alone =>
    /\ batches[f.run].pc = "group"
    /\ f.way = batches[f.run].way
    /\ f.model \notin batches[f.run].todo

BatchInv ==
  \A b \in Batches :
    /\ batches[b].pc = "group" => Flights(b) # {}
    /\ batches[b].pc = "sleep" => batches[b].todo # {}
    /\ batches[b].pc \in {"group", "sleep"} =>
         Cardinality(batches[b].todo) + Cardinality(Flights(b))
           <= batches[b].total
    /\ b \in abandoned => batches[b].pc # "unused"

StopInv ==
  isBatchStopRequested => isBatchTesting /\ batchStopRequestedRef

LoneInv ==
  ~overlapped =>
    /\ \A b, c \in Alive : b = c
    /\ Alive \cap abandoned # {} => batchStopRequestedRef

\* The two parts of ShownIsTrue.
RowsInv ==
  \A m \in Models :
    m \in testingModels \/ testResults[m] = "testing" =>
      \E f \in inFlight : f.model = m

ProgressInv ==
  ~overlapped =>
    /\ isBatchTesting <=> Alive \ abandoned # {}
    /\ batchProgress # None =>
         /\ batchProgress.completed < batchProgress.total
         /\ \E b \in Alive : batchProgress = Completed(b, inFlight)

IInv ==
  /\ TypeOK /\ FlightInv /\ BatchInv /\ StopInv /\ LoneInv
  /\ RowsInv /\ ProgressInv
-----------------------------------------------------------------------------
(***************************************************************************)
(* Sets of naturals and of tests.                                          *)
(***************************************************************************)

\* A set of models has a first one: a least set among those of the members
\* below a member is empty.
LEMMA HasLeast ==
  ASSUME NEW n \in Nat, NEW S, S \subseteq 1..n, S # {}
  PROVE  \E x \in S : {y \in S : y < x} = {}
<1> DEFINE Below(x) == {y \in S : y < x}
           T == {Below(x) : x \in S}
<1>1. IsFiniteSet(S)
  <2>1. IsFiniteSet(1..n)
    BY FS_Interval
  <2>2. QED
    BY <2>1, FS_Subset
<1>2. IsWellFoundedOn(StrictSubsetOrdering(S), SUBSET S)
  BY <1>1, FS_FiniteSubsetsOfFinite, FS_StrictSubsetOrderingWellFounded
<1>3. T \subseteq SUBSET S /\ T # {}
  OBVIOUS
<1> HIDE DEF T
<1>4. PICK t \in T : \A u \in T : <<u, t>> \notin StrictSubsetOrdering(S)
  BY <1>2, <1>3, WFMin
<1> USE DEF T
<1>5. PICK x \in S : t = Below(x)
  BY <1>4
<1>6. ASSUME NEW y \in Below(x) PROVE FALSE
  <2>1. y \in S /\ y < x /\ x \in Int /\ y \in Int
    OBVIOUS
  <2>2. y \in Below(x) /\ y \notin Below(y)
    BY <2>1
  <2>3. Below(y) \subseteq Below(x)
    <3>1. \A z \in S : z \in Int
      OBVIOUS
    <3>2. \A z \in S : z < y => z < x
      BY <2>1, <3>1
    <3>3. QED
      BY <3>2
  <2>4. <<Below(y), Below(x)>> \in StrictSubsetOrdering(S)
    BY <2>2, <2>3 DEF StrictSubsetOrdering
  <2>5. QED
    BY <1>4, <1>5, <2>1, <2>4
<1>7. QED
  BY <1>6

\* A group of a set of models that are left is a part of it, and not empty.
LEMMA GroupIs ==
  ASSUME NEW S, S \subseteq Models
  PROVE  Group(S) \subseteq S /\ (S # {} => Group(S) # {})
<1>1. Group(S) \subseteq S
  BY DEF Group
<1>2. ASSUME S # {} PROVE Group(S) # {}
  <2>1. PICK x \in S : {y \in S : y < x} = {}
    BY <1>2, HasLeast, ChannelTestAssumption DEF Models
  <2>2. Cardinality({y \in S : y < x}) < Width
    BY <2>1, FS_EmptySet, ChannelTestAssumption
  <2>3. QED
    BY <2>2 DEF Group
<1>3. QED
  BY <1>1, <1>2

\* A set of models is finite, and splits into any part and the rest.
LEMMA ModelSet ==
  ASSUME NEW S, S \subseteq Models
  PROVE  /\ IsFiniteSet(S) /\ Cardinality(S) \in 0..NumModels
         /\ S # {} => Cardinality(S) > 0
         /\ \A G : G \subseteq S =>
              Cardinality(S) = Cardinality(S \ G) + Cardinality(G)
<1>1. IsFiniteSet(Models) /\ Cardinality(Models) = NumModels
  BY FS_Interval, ChannelTestAssumption DEF Models
<1>2. /\ IsFiniteSet(S) /\ Cardinality(S) \in Nat
      /\ Cardinality(S) <= NumModels
  BY <1>1, FS_Subset, FS_CardinalityType
<1>3. S # {} => Cardinality(S) # 0
  BY <1>2, FS_EmptySet
<1>4. ASSUME NEW G, G \subseteq S
      PROVE  Cardinality(S) = Cardinality(S \ G) + Cardinality(G)
  <2>1. Cardinality(S \ G) = Cardinality(S) - Cardinality(S \cap G)
    BY <1>2, FS_Difference
  <2>2. S \cap G = G
    BY <1>4
  <2>3. IsFiniteSet(G) /\ Cardinality(G) \in Nat
    BY <1>2, <1>4, FS_Subset, FS_CardinalityType
  <2> DEFINE whole == Cardinality(S)
             rest == Cardinality(S \ G)
             part == Cardinality(G)
  <2>4. whole \in Nat /\ part \in Nat /\ rest = whole - part
    BY <1>2, <2>1, <2>2, <2>3
  <2> HIDE DEF whole, rest, part
  <2>5. whole = rest + part
    BY <2>4
  <2>6. QED
    BY <2>5 DEF whole, rest, part
<1>5. QED
  BY <1>2, <1>3, <1>4, ChannelTestAssumption

\* The tests of one run and one way are as many as their models.
Tests(b, S, w) == [run : {b}, model : S, way : {w}]

LEMMA TestsCount ==
  ASSUME NEW b, NEW w, NEW S, S \subseteq Models
  PROVE  /\ IsFiniteSet(Tests(b, S, w))
         /\ Cardinality(Tests(b, S, w)) = Cardinality(S)
<1> DEFINE T == Tests(b, S, w)
           g == [m \in S |-> [run |-> b, model |-> m, way |-> w]]
<1>1. g \in [S -> T]
  BY DEF Tests
<1>2. \A m, k \in S : g[m] = g[k] => m = k
  OBVIOUS
<1>3. \A t \in T : \E m \in S : g[m] = t
  <2> TAKE t \in T
  <2>1. t.model \in S /\ g[t.model] = t
    BY DEF Tests
  <2>2. QED
    BY <2>1
<1> HIDE DEF g, T
<1>4. g \in Bijection(S, T)
  BY <1>1, <1>2, <1>3 DEF Bijection, Injection, Surjection, IsInjective
<1>5. QED
  BY <1>4, ModelSet, FS_Bijection DEF ExistsBijection, T
-----------------------------------------------------------------------------
(***************************************************************************)
(* What the invariant says of the counts.                                  *)
(***************************************************************************)

\* The tests that a batch has under way are finitely many, all its way.
LEMMA FlightsAre ==
  ASSUME TypeOK, FlightInv, NEW b \in Batches, NEW F, F \subseteq inFlight
  PROVE  LET mine == {f \in F : f.run = b}
         IN /\ IsFiniteSet(mine) /\ Cardinality(mine) \in Nat
            /\ mine # {} => Cardinality(mine) > 0
            /\ mine \subseteq Flights(b)
            /\ Cardinality(mine) <= Cardinality(Flights(b))
<1> DEFINE mine == {f \in F : f.run = b}
           all == Tests(b, Models, batches[b].way)
<1>1. b # Alone
  BY ChannelTestAssumption DEF Batches, Alone
<1>2. mine \subseteq Flights(b)
  BY DEF Flights
<1>3. ASSUME NEW f \in Flights(b) PROVE f \in all
  <2>1. f \in [run : Batches \cup {Alone}, model : Models, way : Ways]
        /\ f.run = b
    BY DEF TypeOK, Flights
  <2>2. f.way = batches[b].way
    BY <1>1, <2>1 DEF FlightInv, Flights
  <2>3. QED
    BY <2>1, <2>2 DEF Tests
<1>4. IsFiniteSet(all)
  BY Models \subseteq Models, TestsCount
<1> HIDE DEF all, mine
<1>5. IsFiniteSet(Flights(b))
  BY <1>3, <1>4, FS_Subset
<1>6. /\ IsFiniteSet(mine) /\ Cardinality(mine) \in Nat
      /\ Cardinality(mine) <= Cardinality(Flights(b))
  BY <1>2, <1>5, FS_Subset, FS_CardinalityType
<1>7. mine # {} => Cardinality(mine) > 0
  BY <1>6, FS_EmptySet
<1>8. QED
  BY <1>2, <1>6, <1>7 DEF mine

\* A live batch shows a progress that is a count and short of its end, also
\* when some answers have just come in.
LEMMA CompletedIs ==
  ASSUME TypeOK, FlightInv, BatchInv, NEW b \in Batches,
         batches[b].pc \in {"group", "sleep"},
         NEW F, F \subseteq inFlight
  PROVE  /\ Completed(b, F) \in [total : 0..NumModels,
                                 completed : 0..NumModels]
         /\ batches[b].todo # {} \/ (\E f \in F : f.run = b) =>
              Completed(b, F).completed < Completed(b, F).total
<1> DEFINE mine == {f \in F : f.run = b}
           total == batches[b].total
           left == Cardinality(batches[b].todo)
           under == Cardinality(mine)
<1>1. /\ total \in 0..NumModels /\ batches[b].todo \subseteq Models
  BY DEF TypeOK
<1>2. left \in Nat /\ (batches[b].todo # {} => left > 0)
  BY <1>1, ModelSet
<1>3. /\ under \in Nat /\ (mine # {} => under > 0)
      /\ under <= Cardinality(Flights(b))
  BY FlightsAre
<1>4. Cardinality(Flights(b)) \in Nat
  <2>1. inFlight \subseteq inFlight
    OBVIOUS
  <2>2. QED
    BY <2>1, FlightsAre DEF Flights
<1>5. left + Cardinality(Flights(b)) <= total
  BY DEF BatchInv
<1>6. Completed(b, F) = [total |-> total, completed |-> total - left - under]
  BY DEF Completed
<1>7. (\E f \in F : f.run = b) => mine # {}
  OBVIOUS
<1> HIDE DEF mine, total, left, under
<1>8. left + under <= total
  BY <1>1, <1>2, <1>3, <1>4, <1>5
<1>9. /\ total - left - under \in 0..NumModels
      /\ left > 0 \/ under > 0 => total - left - under < total
  BY <1>1, <1>2, <1>3, <1>8, ChannelTestAssumption
<1>10. QED
  BY <1>1, <1>2, <1>3, <1>6, <1>7, <1>9
-----------------------------------------------------------------------------
(***************************************************************************)
(* The invariant holds at first and is kept by every action.               *)
(***************************************************************************)

LEMMA ConstantRecords ==
  /\ None \in [total : 0..NumModels, completed : 0..NumModels]
  /\ {Unused, Over} \subseteq [pc : {"unused", "group", "sleep", "over"},
                               total : 0..NumModels, todo : SUBSET Models,
                               way : Ways]
  /\ Unused.pc = "unused" /\ Over.pc = "over"
<1>1. 0 \in 0..NumModels /\ {} \in SUBSET Models
  BY ChannelTestAssumption
<1>2. None \in [total : 0..NumModels, completed : 0..NumModels]
  BY <1>1 DEF None
<1>3. Over = [pc |-> "over", total |-> 0, todo |-> {}, way |-> AutoWay]
  BY DEF Over, Unused
<1>4. QED
  BY <1>1, <1>2, <1>3, ChannelTestAssumption DEF Unused

LEMMA InitInv == Init => IInv
<1> SUFFICES ASSUME Init PROVE IInv
  OBVIOUS
<1>1. TypeOK
  BY ConstantRecords, ChannelTestAssumption DEF Init, TypeOK
<1>2. \A b \in Batches : batches[b].pc = "unused"
  BY ConstantRecords DEF Init
<1>3. Alive = {}
  BY <1>2 DEF Alive
<1>4. FlightInv /\ StopInv
  BY DEF Init, FlightInv, StopInv
<1>5. BatchInv
  BY <1>2 DEF Init, BatchInv
<1>6. LoneInv
  BY <1>3 DEF LoneInv
<1>7. RowsInv
  BY DEF Init, RowsInv
<1>8. ProgressInv
  BY <1>3 DEF Init, ProgressInv
<1>9. QED
  BY <1>1, <1>4, <1>5, <1>6, <1>7, <1>8 DEF IInv

\* Open and handleEndpointTypeChange touch nothing that the batches use.
LEMMA ViewInv ==
  ASSUME IInv, open' \in BOOLEAN, way' \in Ways,
         UNCHANGED <<batchStopRequestedRef, shown, inFlight, batches,
                     abandoned, overlapped>>
  PROVE  IInv'
<1>1. TypeOK'
  BY DEF IInv, TypeOK, shown
<1>2. FlightInv' /\ BatchInv'
  BY DEF IInv, FlightInv, BatchInv, Flights
<1>3. StopInv' /\ RowsInv'
  BY DEF IInv, StopInv, RowsInv, shown
<1>4. Alive' = Alive
  BY DEF Alive
<1>5. LoneInv'
  BY <1>4 DEF IInv, LoneInv
<1>6. \A b : Completed(b, inFlight)' = Completed(b, inFlight)
  BY DEF Completed
<1>7. ProgressInv'
  BY <1>4, <1>6 DEF IInv, ProgressInv, shown
<1>8. QED
  BY <1>1, <1>2, <1>3, <1>5, <1>7 DEF IInv

LEMMA StopButtonInv ==
  ASSUME IInv, handleStopBatchTest
  PROVE  IInv'
<1> USE DEF handleStopBatchTest
<1>1. TypeOK'
  BY DEF IInv, TypeOK
<1>2. FlightInv' /\ BatchInv'
  BY DEF IInv, FlightInv, BatchInv, Flights
<1>3. StopInv' /\ RowsInv'
  BY DEF IInv, StopInv, RowsInv
<1>4. Alive' = Alive
  BY DEF Alive
<1>5. LoneInv'
  BY <1>4 DEF IInv, LoneInv
<1>6. \A b : Completed(b, inFlight)' = Completed(b, inFlight)
  BY DEF Completed
<1>7. ProgressInv'
  BY <1>4, <1>6 DEF IInv, ProgressInv
<1>8. QED
  BY <1>1, <1>2, <1>3, <1>5, <1>7 DEF IInv

LEMMA CloseInv ==
  ASSUME IInv, handleClose
  PROVE  IInv'
<1> USE DEF handleClose
<1>0. Alive \subseteq Batches
  BY DEF Alive
<1>1. TypeOK'
  BY <1>0, ConstantRecords, ChannelTestAssumption DEF IInv, TypeOK
<1>2. FlightInv'
  BY DEF IInv, FlightInv
<1>3. BatchInv'
  BY DEF IInv, BatchInv, Flights, Alive
<1>4. StopInv' /\ RowsInv'
  BY DEF StopInv, RowsInv
<1>5. Alive' = Alive
  BY DEF Alive
<1>6. LoneInv'
  BY <1>5 DEF IInv, LoneInv
<1>7. ProgressInv'
  BY <1>5 DEF ProgressInv
<1>8. QED
  BY <1>1, <1>2, <1>3, <1>4, <1>6, <1>7 DEF IInv

\* The records that testSingleModel adds for a set of models.
LEMMA TestsAdded ==
  ASSUME TypeOK, NEW b \in Batches \cup {Alone}, NEW ms, ms \subseteq Models,
         NEW w \in Ways, StartTests(b, ms, w)
  PROVE  /\ inFlight' \subseteq [run : Batches \cup {Alone},
                                 model : Models, way : Ways]
         /\ testingModels' \subseteq Models
         /\ testResults' \in [Models -> {"none", "testing", "tested"}]
         /\ inFlight \subseteq inFlight'
         /\ \A f \in inFlight' :
              f \in inFlight \/ (f.run = b /\ f.model \in ms /\ f.way = w)
         /\ \A m \in ms : \E f \in inFlight' : f.run = b /\ f.model = m
         /\ RowsInv => RowsInv'
<1> DEFINE new == [run : {b}, model : ms, way : {w}]
<1>1. /\ inFlight' = inFlight \cup new
      /\ testingModels' = testingModels \cup ms
      /\ testResults' = [m \in Models |->
                           IF m \in ms THEN "testing" ELSE testResults[m]]
  BY DEF StartTests
<1>2. new \subseteq [run : Batches \cup {Alone}, model : Models, way : Ways]
  OBVIOUS
<1>3. \A f \in new : f.run = b /\ f.model \in ms /\ f.way = w
  OBVIOUS
<1>4. ASSUME NEW m \in ms PROVE \E f \in new : f.run = b /\ f.model = m
  <2>1. [run |-> b, model |-> m, way |-> w] \in new
    OBVIOUS
  <2>2. QED
    BY <2>1
<1> HIDE DEF new
<1>5. /\ inFlight' \subseteq [run : Batches \cup {Alone},
                              model : Models, way : Ways]
      /\ testingModels' \subseteq Models
      /\ testResults' \in [Models -> {"none", "testing", "tested"}]
  BY <1>1, <1>2 DEF TypeOK
<1>6. \A m \in ms : \E f \in inFlight' : f.run = b /\ f.model = m
  BY <1>1, <1>4
<1>7. RowsInv => RowsInv'
  BY <1>1, <1>6 DEF RowsInv
<1>8. QED
  BY <1>1, <1>3, <1>5, <1>6, <1>7

LEMMA SingleInv ==
  ASSUME IInv, NEW m \in Models, testSingleModel(m)
  PROVE  IInv'
<1>0. TypeOK /\ FlightInv /\ BatchInv
  BY DEF IInv
<1>1. /\ inFlight' \subseteq [run : Batches \cup {Alone},
                              model : Models, way : Ways]
      /\ testingModels' \subseteq Models
      /\ testResults' \in [Models -> {"none", "testing", "tested"}]
      /\ inFlight \subseteq inFlight'
      /\ \A f \in inFlight' : f \in inFlight \/ f.run = Alone
      /\ RowsInv'
  <2>1. StartTests(Alone, {m}, way) /\ way \in Ways
    BY <1>0 DEF testSingleModel, TypeOK
  <2>2. QED
    BY <1>0, <2>1, TestsAdded DEF IInv
<1>2. UNCHANGED <<open, batchStopRequestedRef, way, isBatchTesting,
                  isBatchStopRequested, batchProgress, batches, abandoned,
                  overlapped>>
  BY DEF testSingleModel
<1>3. TypeOK'
  BY <1>0, <1>1, <1>2 DEF TypeOK
<1>4. FlightInv'
  BY <1>0, <1>1, <1>2 DEF FlightInv
<1>5. \A b \in Batches :
        {f \in inFlight' : f.run = b} = {f \in inFlight : f.run = b}
  <2>1. \A b \in Batches : b # Alone
    BY ChannelTestAssumption DEF Batches, Alone
  <2>2. QED
    BY <1>1, <2>1
<1>6. BatchInv'
  BY <1>0, <1>2, <1>5 DEF BatchInv, Flights
<1>7. Alive' = Alive
  BY <1>2 DEF Alive
<1>8. StopInv' /\ LoneInv'
  BY <1>2, <1>7 DEF IInv, StopInv, LoneInv
<1>9. \A b \in Batches : Completed(b, inFlight)' = Completed(b, inFlight)
  BY <1>2, <1>5 DEF Completed
<1>10. ProgressInv'
  BY <1>2, <1>7, <1>9 DEF IInv, ProgressInv, Alive
<1>11. QED
  BY <1>1, <1>3, <1>4, <1>6, <1>8, <1>10 DEF IInv

\* A batch that has no test under way starts the next group of the models
\* that are left.
LEMMA GroupStarted ==
  ASSUME TypeOK, FlightInv, BatchInv,
         NEW b \in Batches, NEW S, S \subseteq Models, S # {}, NEW w \in Ways,
         Flights(b) = {}, StartTests(b, Group(S), w),
         \A c \in Batches : c # b => batches'[c] = batches[c],
         batches'[b].pc = "group", batches'[b].way = w,
         batches'[b].todo = S \ Group(S),
         batches'[b].total \in Nat, Cardinality(S) <= batches'[b].total,
         abandoned' = abandoned
  PROVE  /\ FlightInv' /\ BatchInv'
         /\ Cardinality(batches'[b].todo) \in Nat
         /\ Cardinality({f \in inFlight' : f.run = b}) \in Nat
         /\ Cardinality(S) = Cardinality(batches'[b].todo)
                               + Cardinality({f \in inFlight' : f.run = b})
<1> DEFINE G == Group(S)
           new == Tests(b, G, w)
<1>1. G \subseteq S /\ G # {} /\ G \subseteq Models
  BY GroupIs
<1>2. inFlight' = inFlight \cup new
  BY DEF StartTests, Tests
<1>3. \A f \in new : f.run = b /\ f.model \in G /\ f.way = w
  BY DEF Tests
<1>4. b # Alone
  BY ChannelTestAssumption DEF Batches, Alone
<1>5. Cardinality(new) = Cardinality(G)
  BY <1>1, TestsCount
<1>6. new # {}
  <2>1. PICK m \in G : TRUE
    BY <1>1
  <2>2. [run |-> b, model |-> m, way |-> w] \in new
    BY DEF Tests
  <2>3. QED
    BY <2>2
<1>7. batches'[b].todo = S \ G
  OBVIOUS
<1> HIDE DEF new, G
<1>8. {f \in inFlight' : f.run = b} = new
  BY <1>2, <1>3 DEF Flights
<1>9. \A c \in Batches : c # b =>
        {f \in inFlight' : f.run = c} = Flights(c)
  BY <1>2, <1>3 DEF Flights
<1>10. FlightInv'
  <2> SUFFICES ASSUME NEW f \in inFlight', f.run # Alone
               PROVE  /\ batches'[f.run].pc = "group"
                      /\ f.way = batches'[f.run].way
                      /\ f.model \notin batches'[f.run].todo
    BY DEF FlightInv
  <2>1. CASE f \in new
    BY <1>3, <1>7, <2>1
  <2>2. CASE f \in inFlight
    <3>1. f.run \in Batches /\ f.run # b
      BY <2>2 DEF TypeOK, Flights
    <3>2. QED
      BY <2>2, <3>1 DEF FlightInv
  <2>3. QED
    BY <1>2, <2>1, <2>2
<1>11. /\ Cardinality(S) = Cardinality(S \ G) + Cardinality(G)
       /\ Cardinality(S) \in Nat /\ Cardinality(G) \in Nat
       /\ Cardinality(S \ G) \in Nat
  <2>1. \A R : R \subseteq Models => Cardinality(R) \in Nat
    BY ModelSet, ChannelTestAssumption
  <2>2. QED
    BY <1>1, <2>1, ModelSet
<1>12. /\ Cardinality(batches'[b].todo) \in Nat
       /\ Cardinality({f \in inFlight' : f.run = b}) \in Nat
       /\ Cardinality(S) = Cardinality(batches'[b].todo)
                             + Cardinality({f \in inFlight' : f.run = b})
  BY <1>5, <1>7, <1>8, <1>11
<1>13. ASSUME NEW c \in Batches, c = b
       PROVE  /\ {f \in inFlight' : f.run = c} # {}
              /\ Cardinality(batches'[c].todo)
                   + Cardinality({f \in inFlight' : f.run = c})
                   <= batches'[c].total
  BY <1>6, <1>8, <1>12, <1>13
<1>14. BatchInv'
  <2> SUFFICES ASSUME NEW c \in Batches
               PROVE
        /\ batches'[c].pc = "group" => {f \in inFlight' : f.run = c} # {}
        /\ batches'[c].pc = "sleep" => batches'[c].todo # {}
        /\ batches'[c].pc \in {"group", "sleep"} =>
             Cardinality(batches'[c].todo)
               + Cardinality({f \in inFlight' : f.run = c})
               <= batches'[c].total
        /\ c \in abandoned => batches'[c].pc # "unused"
    BY DEF BatchInv, Flights
  <2>1. CASE c = b
    BY <1>13, <2>1
  <2>2. CASE c # b
    BY <1>9, <2>2 DEF BatchInv
  <2>3. QED
    BY <2>1, <2>2
<1>15. QED
  BY <1>10, <1>12, <1>14

LEMMA BatchTestInv ==
  ASSUME IInv, NEW b \in Batches, NEW ms \in SUBSET Models,
         handleBatchTest(b, ms)
  PROVE  IInv'
<1>0. TypeOK /\ FlightInv /\ BatchInv
  BY DEF IInv
<1> DEFINE rec == [pc |-> "group", total |-> Cardinality(ms),
                   todo |-> ms \ Group(ms), way |-> way]
<1>1. /\ ms # {} /\ batches[b].pc = "unused"
      /\ batches' = [batches EXCEPT ![b] = rec]
      /\ StartTests(b, Group(ms), way)
  <2>1. b >= b
    BY DEF Batches
  <2>2. QED
    BY <2>1 DEF handleBatchTest
<1>2. /\ batchStopRequestedRef' = FALSE /\ isBatchTesting' = TRUE
      /\ isBatchStopRequested' = FALSE
      /\ batchProgress' = [total |-> Cardinality(ms), completed |-> 0]
      /\ overlapped' = (overlapped \/ Alive # {})
      /\ UNCHANGED <<open, way, abandoned>>
  BY DEF handleBatchTest
<1>3. Cardinality(ms) \in 0..NumModels /\ Cardinality(ms) > 0
  BY <1>1, ModelSet
<1>4. /\ way \in Ways /\ Group(ms) \subseteq Models
      /\ ms \ Group(ms) \in SUBSET Models
  BY <1>0, GroupIs DEF TypeOK
<1>5. /\ batches' \in [Batches -> [pc : {"unused", "group", "sleep", "over"},
                                   total : 0..NumModels,
                                   todo : SUBSET Models, way : Ways]]
      /\ batches'[b] = rec
      /\ \A c \in Batches : c # b => batches'[c] = batches[c]
  BY <1>0, <1>1, <1>3, <1>4 DEF TypeOK
<1>6. /\ batches'[b].pc = "group" /\ batches'[b].way = way
      /\ batches'[b].total = Cardinality(ms)
      /\ batches'[b].todo = ms \ Group(ms)
  BY <1>5
<1> HIDE DEF rec
<1>7. Flights(b) = {}
  <2>1. b # Alone
    BY ChannelTestAssumption DEF Batches, Alone
  <2>2. QED
    BY <1>0, <1>1, <2>1 DEF FlightInv, Flights
<1>8. /\ FlightInv' /\ BatchInv'
      /\ Cardinality(batches'[b].todo) \in Nat
      /\ Cardinality({f \in inFlight' : f.run = b}) \in Nat
      /\ Cardinality(ms) = Cardinality(batches'[b].todo)
                             + Cardinality({f \in inFlight' : f.run = b})
  <2>1. batches'[b].total \in Nat /\ Cardinality(ms) <= batches'[b].total
    BY <1>3, <1>6
  <2>2. ms \subseteq Models
    OBVIOUS
  <2>3. QED
    BY <1>0, <1>1, <1>2, <1>4, <1>5, <1>6, <1>7, <2>1, <2>2, GroupStarted
<1>9. /\ inFlight' \subseteq [run : Batches \cup {Alone},
                              model : Models, way : Ways]
      /\ testingModels' \subseteq Models
      /\ testResults' \in [Models -> {"none", "testing", "tested"}]
      /\ RowsInv'
  BY <1>0, <1>1, <1>4, TestsAdded DEF IInv
<1>10. TypeOK'
  <2>1. batchProgress' \in [total : 0..NumModels, completed : 0..NumModels]
    BY <1>2, <1>3, ChannelTestAssumption
  <2>2. {open, batchStopRequestedRef, isBatchTesting, isBatchStopRequested,
         overlapped}' \subseteq BOOLEAN
    BY <1>0, <1>2 DEF TypeOK
  <2>3. QED
    BY <1>0, <1>2, <1>5, <1>9, <2>1, <2>2 DEF TypeOK
<1>11. StopInv'
  BY <1>2 DEF StopInv
<1>12. /\ b \notin abandoned
       /\ ~overlapped' => Alive' = {b}
  <2>1. b \notin abandoned
    BY <1>0, <1>1 DEF BatchInv
  <2>2. ASSUME ~overlapped' PROVE Alive' = {b}
    <3>1. Alive = {}
      BY <1>2, <2>2
    <3>2. \A c \in Batches : c # b =>
            batches'[c].pc \notin {"group", "sleep"}
      BY <1>5, <3>1 DEF Alive
    <3>3. QED
      BY <1>6, <3>2 DEF Alive
  <2>3. QED
    BY <2>1, <2>2
<1>13. LoneInv'
  BY <1>2, <1>12 DEF LoneInv
<1>14. ProgressInv'
  <2>1. Completed(b, inFlight)' = [total |-> Cardinality(ms),
                                   completed |-> 0]
    <3> DEFINE total == Cardinality(ms)
               left == Cardinality(batches'[b].todo)
               under == Cardinality({f \in inFlight' : f.run = b})
    <3>1. Completed(b, inFlight)' =
            [total |-> total, completed |-> total - left - under]
      BY <1>6 DEF Completed
    <3>2. total = left + under /\ total \in Nat
      BY <1>3, <1>8
    <3>3. left \in Nat /\ under \in Nat
      BY <1>8
    <3> HIDE DEF total, left, under
    <3>4. total - left - under = 0
      BY <3>2, <3>3
    <3>5. QED
      BY <3>1, <3>4 DEF total
  <2>2. 0 < Cardinality(ms)
    BY <1>3
  <2>3. QED
    BY <1>2, <1>12, <2>1, <2>2 DEF ProgressInv
<1>15. QED
  BY <1>8, <1>9, <1>10, <1>11, <1>13, <1>14 DEF IInv

\* A batch that sleeps has no test under way.
LEMMA SleepersWait ==
  ASSUME TypeOK, FlightInv, NEW b \in Batches, batches[b].pc = "sleep"
  PROVE  Flights(b) = {}
<1>1. b # Alone
  BY ChannelTestAssumption DEF Batches, Alone
<1>2. QED
  BY <1>1 DEF FlightInv, Flights

LEMMA WakeGroupInv ==
  ASSUME IInv, NEW b \in Batches, WakeBlind(b)
  PROVE  IInv'
<1>0. TypeOK /\ FlightInv /\ BatchInv
  BY DEF IInv
<1> DEFINE S == batches[b].todo
           w == batches[b].way
<1>1. /\ batches[b].pc = "sleep"
      /\ StartTests(b, Group(S), w)
      /\ batches' = [batches EXCEPT ![b].pc = "group",
                                    ![b].todo = @ \ Group(@)]
      /\ UNCHANGED <<open, batchStopRequestedRef, way, isBatchTesting,
                     isBatchStopRequested, batchProgress, abandoned,
                     overlapped>>
  BY DEF WakeBlind
<1>2. S \subseteq Models /\ w \in Ways /\ batches[b].total \in 0..NumModels
  BY <1>0 DEF TypeOK
<1>3. S # {}
  BY <1>0, <1>1 DEF BatchInv
<1>4. /\ batches' \in [Batches -> [pc : {"unused", "group", "sleep", "over"},
                                   total : 0..NumModels,
                                   todo : SUBSET Models, way : Ways]]
      /\ \A c \in Batches : c # b => batches'[c] = batches[c]
      /\ batches'[b].pc = "group" /\ batches'[b].way = w
      /\ batches'[b].todo = S \ Group(S)
      /\ batches'[b].total = batches[b].total
  BY <1>0, <1>1 DEF TypeOK
<1>5. Flights(b) = {}
  BY <1>0, <1>1, SleepersWait
<1>6. Cardinality(S) <= batches[b].total /\ Cardinality(S) \in Nat
  <2>1. Cardinality(S) + Cardinality(Flights(b)) <= batches[b].total
    BY <1>0, <1>1 DEF BatchInv
  <2>2. Cardinality(Flights(b)) = 0
    BY <1>5, FS_EmptySet
  <2>3. Cardinality(S) \in Nat
    BY <1>2, ModelSet, ChannelTestAssumption
  <2>4. QED
    BY <2>1, <2>2, <2>3
<1> HIDE DEF S, w
<1>7. Group(S) \subseteq Models
  BY <1>2, GroupIs
<1>8. /\ FlightInv' /\ BatchInv'
      /\ Cardinality(batches'[b].todo) \in Nat
      /\ Cardinality({f \in inFlight' : f.run = b}) \in Nat
      /\ Cardinality(S) = Cardinality(batches'[b].todo)
                            + Cardinality({f \in inFlight' : f.run = b})
  <2>1. batches'[b].total \in Nat /\ Cardinality(S) <= batches'[b].total
    BY <1>2, <1>4, <1>6
  <2>2. QED
    BY <1>0, <1>1, <1>2, <1>3, <1>4, <1>5, <2>1, GroupStarted
<1>9. /\ inFlight' \subseteq [run : Batches \cup {Alone},
                              model : Models, way : Ways]
      /\ testingModels' \subseteq Models
      /\ testResults' \in [Models -> {"none", "testing", "tested"}]
      /\ RowsInv'
  BY <1>0, <1>1, <1>2, <1>7, TestsAdded DEF IInv
<1>10. TypeOK'
  BY <1>0, <1>1, <1>4, <1>9 DEF TypeOK
<1>11. Alive' = Alive /\ b \in Alive
  BY <1>1, <1>4 DEF Alive
<1>12. StopInv' /\ LoneInv'
  BY <1>1, <1>11 DEF IInv, StopInv, LoneInv
<1>13. Completed(b, inFlight)' = Completed(b, inFlight)
  <2> DEFINE total == batches[b].total
             left == Cardinality(batches'[b].todo)
             under == Cardinality({f \in inFlight' : f.run = b})
  <2>1. Completed(b, inFlight)' =
          [total |-> total, completed |-> total - left - under]
    BY <1>4 DEF Completed
  <2>2. Completed(b, inFlight) =
          [total |-> total, completed |-> total - Cardinality(S) - 0]
    <3>1. Cardinality(Flights(b)) = 0
      BY <1>5, FS_EmptySet
    <3>2. QED
      BY <3>1 DEF Completed, Flights, S
  <2>3. /\ Cardinality(S) = left + under /\ total \in Nat
        /\ left \in Nat /\ under \in Nat
    BY <1>2, <1>8
  <2> HIDE DEF total, left, under
  <2>4. total - left - under = total - Cardinality(S) - 0
    BY <2>3
  <2>5. QED
    BY <2>1, <2>2, <2>4
<1>14. ProgressInv'
  <2> SUFFICES ASSUME ~overlapped
               PROVE  /\ isBatchTesting <=> Alive \ abandoned # {}
                      /\ batchProgress # None =>
                           /\ batchProgress.completed < batchProgress.total
                           /\ \E c \in Alive :
                                batchProgress = Completed(c, inFlight)'
    BY <1>1, <1>11 DEF ProgressInv
  <2>1. \A c \in Alive : c = b
    BY <1>11 DEF IInv, LoneInv
  <2>2. QED
    BY <1>11, <1>13, <2>1 DEF IInv, ProgressInv
<1>15. QED
  BY <1>8, <1>9, <1>10, <1>12, <1>14 DEF IInv

LEMMA WakeEndInv ==
  ASSUME IInv, NEW b \in Batches,
         batches[b].pc = "sleep", Finally({b}), batchProgress' = None,
         batches' = [batches EXCEPT ![b] = Over],
         UNCHANGED <<open, way, testResults, testingModels, inFlight,
                     abandoned, overlapped>>
  PROVE  IInv'
<1>0. TypeOK /\ FlightInv /\ BatchInv
  BY DEF IInv
<1>1. /\ batchStopRequestedRef' = FALSE /\ isBatchTesting' = FALSE
      /\ isBatchStopRequested' = FALSE
  BY DEF Finally
<1>2. /\ batches' \in [Batches -> [pc : {"unused", "group", "sleep", "over"},
                                   total : 0..NumModels,
                                   todo : SUBSET Models, way : Ways]]
      /\ batches'[b].pc = "over"
      /\ \A c \in Batches : c # b => batches'[c] = batches[c]
  BY <1>0, ConstantRecords DEF TypeOK
<1>3. TypeOK'
  BY <1>0, <1>1, <1>2, ConstantRecords DEF TypeOK
<1>4. FlightInv'
  <2>1. \A f \in inFlight : f.run # Alone => f.run \in Batches /\ f.run # b
    BY <1>0, SleepersWait DEF TypeOK, Flights
  <2>2. QED
    BY <1>0, <1>2, <2>1 DEF FlightInv
<1>5. BatchInv'
  BY <1>0, <1>2 DEF BatchInv, Flights
<1>6. StopInv' /\ RowsInv'
  BY <1>1 DEF IInv, StopInv, RowsInv
<1>7. ~overlapped => Alive' = {}
  <2>1. b \in Alive
    BY DEF Alive
  <2>2. ~overlapped => \A c \in Batches : c # b => c \notin Alive
    BY <2>1 DEF IInv, LoneInv
  <2>3. QED
    BY <1>2, <2>2 DEF Alive
<1>8. LoneInv' /\ ProgressInv'
  BY <1>1, <1>7 DEF LoneInv, ProgressInv
<1>9. QED
  BY <1>3, <1>4, <1>5, <1>6, <1>8 DEF IInv

\* The batch that goes to sleep keeps everything else.
LEMMA PutToSleep ==
  ASSUME NEW rec \in [pc : {"unused", "group", "sleep", "over"},
                      total : 0..NumModels, todo : SUBSET Models, way : Ways]
  PROVE  /\ [rec EXCEPT !.pc = "sleep"] \in
              [pc : {"unused", "group", "sleep", "over"},
               total : 0..NumModels, todo : SUBSET Models, way : Ways]
         /\ [rec EXCEPT !.pc = "sleep"].pc = "sleep"
         /\ [rec EXCEPT !.pc = "sleep"].total = rec.total
         /\ [rec EXCEPT !.pc = "sleep"].todo = rec.todo
  OBVIOUS

\* What an answer does to the tests and to the batches: the batches that
\* hear it, those whose group is done, those that end.
AnswerDoes(m, flight, heard, done, ends, last) ==
  /\ flight \subseteq inFlight /\ inFlight' = flight
  /\ \A f \in inFlight : f.model # m => f \in flight
  /\ \A f \in inFlight \ flight : f.run = Alone \/ f.run \in heard
  /\ \A b \in heard : b \in Batches /\ batches[b].pc = "group"
  /\ done \subseteq heard /\ ends \subseteq done
  /\ \A b \in heard \ done : \E f \in flight : f.run = b
  /\ \A b \in done : \A f \in flight : f.run # b
  /\ \A b \in done \ ends : batches[b].todo # {}
  /\ heard # {} => last \in heard
  /\ batches' \in [Batches -> [pc : {"unused", "group", "sleep", "over"},
                               total : 0..NumModels,
                               todo : SUBSET Models, way : Ways]]
  /\ \A b \in ends : batches'[b].pc = "over"
  /\ \A b \in done \ ends : /\ batches'[b].pc = "sleep"
                            /\ batches'[b].total = batches[b].total
                            /\ batches'[b].todo = batches[b].todo
  /\ \A b \in Batches \ done : batches'[b] = batches[b]
  /\ testResults' = [testResults EXCEPT ![m] = "tested"]
  /\ testingModels' = testingModels \ {m}
  /\ Finally(ends)
  /\ batchProgress' = IF ends # {} THEN None
                      ELSE IF heard # {} THEN Completed(last, flight)
                      ELSE batchProgress
  /\ UNCHANGED <<open, way, abandoned, overlapped>>

LEMMA AnswerIs ==
  ASSUME TypeOK, FlightInv, NEW m \in Models, NEW w \in Ways, Answer(m, w)
  PROVE  \E flight, heard, done, ends, last :
           AnswerDoes(m, flight, heard, done, ends, last)
<1> DEFINE over == {f \in inFlight : f.model = m /\ f.way = w}
           flight == inFlight \ over
           heard == {f.run : f \in over} \ {Alone}
           done == {b \in heard : \A f \in flight : f.run # b}
           EndsIf(first) ==
             {b \in done : \/ batches[b].todo = {}
                           \/ batchStopRequestedRef /\ b = first}
<1>0. PICK first \in done \cup {Alone}, last \in heard \cup {Alone} :
        /\ heard # {} => last # Alone
        /\ batches' = [b \in Batches |->
                         IF b \in EndsIf(first) THEN Over
                         ELSE IF b \in done
                         THEN [batches[b] EXCEPT !.pc = "sleep"]
                         ELSE batches[b]]
        /\ Finally(EndsIf(first))
        /\ batchProgress' =
             IF EndsIf(first) # {} THEN None
             ELSE IF heard # {} THEN Completed(last, flight)
             ELSE batchProgress
  BY DEF Answer
<1> DEFINE ends == EndsIf(first)
<1>1. /\ inFlight' = flight
      /\ testResults' = [testResults EXCEPT ![m] = "tested"]
      /\ testingModels' = testingModels \ {m}
      /\ heard # {} => last \in heard
      /\ batches' = [b \in Batches |->
                       IF b \in ends THEN Over
                       ELSE IF b \in done
                       THEN [batches[b] EXCEPT !.pc = "sleep"]
                       ELSE batches[b]]
      /\ Finally(ends)
      /\ batchProgress' = IF ends # {} THEN None
                          ELSE IF heard # {} THEN Completed(last, flight)
                          ELSE batchProgress
      /\ UNCHANGED <<open, way, abandoned, overlapped>>
  BY <1>0 DEF Answer, Untested
<1>2. /\ flight \subseteq inFlight
      /\ \A f \in inFlight : f.model # m => f \in flight
      /\ \A f \in inFlight \ flight : f.run = Alone \/ f.run \in heard
  OBVIOUS
<1>3. \A b \in heard : b \in Batches /\ batches[b].pc = "group"
  <2>1. ASSUME NEW b \in heard PROVE b \in Batches /\ batches[b].pc = "group"
    <3>1. PICK f \in inFlight : f.run = b /\ b # Alone
      OBVIOUS
    <3>2. f.run \in Batches \cup {Alone}
      BY DEF TypeOK
    <3>3. QED
      BY <3>1, <3>2 DEF FlightInv
  <2>2. QED
    BY <2>1
<1>4. /\ done \subseteq heard /\ ends \subseteq done
      /\ \A b \in heard \ done : \E f \in flight : f.run = b
      /\ \A b \in done : \A f \in flight : f.run # b
      /\ \A b \in done \ ends : batches[b].todo # {}
  OBVIOUS
<1> HIDE DEF over, flight, heard, done, EndsIf, ends
<1>5. \A b \in Batches : batches[b] \in
        [pc : {"unused", "group", "sleep", "over"},
         total : 0..NumModels, todo : SUBSET Models, way : Ways]
  BY DEF TypeOK
<1>6. ends \subseteq done /\ done \subseteq Batches
  BY <1>3, <1>4
<1>7. /\ \A b \in ends : batches'[b] = Over
      /\ \A b \in done \ ends :
           batches'[b] = [batches[b] EXCEPT !.pc = "sleep"]
      /\ \A b \in Batches \ done : batches'[b] = batches[b]
  BY <1>1, <1>6, Zenon
<1>8. \A b \in done \ ends :
        /\ batches'[b] \in [pc : {"unused", "group", "sleep", "over"},
                            total : 0..NumModels,
                            todo : SUBSET Models, way : Ways]
        /\ batches'[b].pc = "sleep"
        /\ batches'[b].total = batches[b].total
        /\ batches'[b].todo = batches[b].todo
  <2> TAKE b \in done \ ends
  <2>1. batches[b] \in [pc : {"unused", "group", "sleep", "over"},
                        total : 0..NumModels, todo : SUBSET Models,
                        way : Ways]
    BY <1>5, <1>6
  <2>2. batches'[b] = [batches[b] EXCEPT !.pc = "sleep"]
    BY <1>7
  <2>3. QED
    BY ONLY <2>1, <2>2, PutToSleep
<1>9. \A b \in ends : batches'[b].pc = "over"
  BY <1>7, ConstantRecords
<1>10. batches' = [b \in Batches |-> batches'[b]]
  BY <1>1, Zenon
<1>11. batches' \in [Batches -> [pc : {"unused", "group", "sleep", "over"},
                                 total : 0..NumModels,
                                 todo : SUBSET Models, way : Ways]]
  <2>1. \A b \in Batches : batches'[b] \in
          [pc : {"unused", "group", "sleep", "over"},
           total : 0..NumModels, todo : SUBSET Models, way : Ways]
    BY <1>5, <1>7, <1>8, ConstantRecords
  <2>2. QED
    BY <1>10, <2>1, Zenon
<1>12. AnswerDoes(m, flight, heard, done, ends, last)
  BY ONLY <1>1, <1>2, <1>3, <1>4, <1>7, <1>8, <1>9, <1>11, Zenon
     DEF AnswerDoes
<1>13. QED
  BY <1>12

LEMMA AnswerInv ==
  ASSUME IInv, NEW m \in Models, NEW w \in Ways, Answer(m, w)
  PROVE  IInv'
<1>0. TypeOK /\ FlightInv /\ BatchInv
  BY DEF IInv
<1>1. PICK flight, heard, done, ends, last :
        AnswerDoes(m, flight, heard, done, ends, last)
  BY <1>0, AnswerIs
<1>2. /\ flight \subseteq inFlight /\ inFlight' = flight
      /\ \A f \in inFlight : f.model # m => f \in flight
      /\ \A f \in inFlight \ flight : f.run = Alone \/ f.run \in heard
      /\ \A b \in done : \A f \in flight : f.run # b
  BY <1>1 DEF AnswerDoes
<1>3. /\ \A b \in heard : b \in Batches /\ batches[b].pc = "group"
      /\ done \subseteq heard /\ ends \subseteq done
      /\ \A b \in heard \ done : \E f \in flight : f.run = b
      /\ \A b \in done \ ends : batches[b].todo # {}
  BY <1>1 DEF AnswerDoes
<1>4. /\ batches' \in [Batches -> [pc : {"unused", "group", "sleep", "over"},
                                   total : 0..NumModels,
                                   todo : SUBSET Models, way : Ways]]
      /\ \A b \in ends : batches'[b].pc = "over"
      /\ \A b \in done \ ends : /\ batches'[b].pc = "sleep"
                                /\ batches'[b].total = batches[b].total
                                /\ batches'[b].todo = batches[b].todo
      /\ \A b \in Batches \ done : batches'[b] = batches[b]
  BY <1>1 DEF AnswerDoes
<1>5. /\ testResults' = [testResults EXCEPT ![m] = "tested"]
      /\ testingModels' = testingModels \ {m}
      /\ Finally(ends)
      /\ batchProgress' = IF ends # {} THEN None
                          ELSE IF heard # {} THEN Completed(last, flight)
                          ELSE batchProgress
      /\ UNCHANGED <<open, way, abandoned, overlapped>>
  BY <1>1 DEF AnswerDoes
<1>6. IF ends = {}
      THEN UNCHANGED <<batchStopRequestedRef, isBatchTesting,
                       isBatchStopRequested>>
      ELSE /\ batchStopRequestedRef' = FALSE /\ isBatchTesting' = FALSE
           /\ isBatchStopRequested' = FALSE
  BY <1>5 DEF Finally
<1>7. heard # {} => last \in heard
  BY <1>1 DEF AnswerDoes
<1>8. TypeOK'
  <2>1. batchProgress' \in [total : 0..NumModels, completed : 0..NumModels]
    <3>1. CASE ends # {}
      BY <1>5, <3>1, ConstantRecords
    <3>2. CASE ends = {} /\ heard # {}
      <4>1. last \in Batches /\ batches[last].pc = "group"
        BY <1>3, <1>7, <3>2
      <4>2. QED
        BY <1>0, <1>2, <1>5, <3>2, <4>1, CompletedIs
    <3>3. CASE ends = {} /\ heard = {}
      BY <1>0, <1>5, <3>3 DEF TypeOK
    <3>4. QED
      BY <3>1, <3>2, <3>3
  <2>2. {open, batchStopRequestedRef, isBatchTesting, isBatchStopRequested,
         overlapped}' \subseteq BOOLEAN
    BY <1>0, <1>5, <1>6 DEF TypeOK
  <2>3. testResults' \in [Models -> {"none", "testing", "tested"}]
    BY <1>0, <1>5 DEF TypeOK
  <2>4. QED
    BY <1>0, <1>2, <1>4, <1>5, <2>1, <2>2, <2>3 DEF TypeOK
<1>9. FlightInv'
  <2>1. \A f \in flight : f.run # Alone => f.run \in Batches \ done
    BY <1>0, <1>2 DEF TypeOK
  <2>2. QED
    BY <1>0, <1>2, <1>4, <2>1 DEF FlightInv
<1>10. BatchInv'
  <2> SUFFICES ASSUME NEW c \in Batches
               PROVE
        /\ batches'[c].pc = "group" => {f \in flight : f.run = c} # {}
        /\ batches'[c].pc = "sleep" => batches'[c].todo # {}
        /\ batches'[c].pc \in {"group", "sleep"} =>
             Cardinality(batches'[c].todo)
               + Cardinality({f \in flight : f.run = c})
               <= batches'[c].total
        /\ c \in abandoned => batches'[c].pc # "unused"
    BY <1>2, <1>5 DEF BatchInv, Flights
  <2> DEFINE left == Cardinality(batches[c].todo)
             all == Cardinality(Flights(c))
             under == Cardinality({f \in flight : f.run = c})
  <2>1. ASSUME batches[c].pc \in {"group", "sleep"}
        PROVE  left + under <= batches[c].total
    <3>1. left + all <= batches[c].total
      BY <1>0, <2>1 DEF BatchInv
    <3>2. under \in Nat /\ under <= all
      BY <1>0, <1>2, FlightsAre
    <3>3. all \in Nat
      BY <1>0, FlightsAre, inFlight \subseteq inFlight DEF Flights
    <3>4. batches[c].todo \subseteq Models /\ batches[c].total \in 0..NumModels
      BY <1>0 DEF TypeOK
    <3>5. left \in Nat
      BY <3>4, ModelSet, ChannelTestAssumption
    <3> HIDE DEF left, all, under
    <3>6. QED
      BY <3>1, <3>2, <3>3, <3>4, <3>5
  <2>2. c \in heard => batches[c].pc = "group"
    BY <1>3
  <2>3. CASE c \in ends
    BY <1>4, <2>3
  <2>4. CASE c \in done \ ends
    BY <1>3, <1>4, <2>1, <2>2, <2>4
  <2>5. CASE c \in heard \ done
    <3>1. batches'[c] = batches[c] /\ \E f \in flight : f.run = c
      BY <1>3, <1>4, <2>5
    <3>2. QED
      BY <1>0, <2>1, <3>1 DEF BatchInv
  <2>6. CASE c \notin heard
    <3>1. c # Alone
      BY ChannelTestAssumption DEF Batches, Alone
    <3>2. {f \in flight : f.run = c} = Flights(c)
      BY <1>2, <2>6, <3>1 DEF Flights
    <3>3. batches'[c] = batches[c]
      BY <1>3, <1>4, <2>6
    <3>4. QED
      BY <1>0, <2>1, <3>2, <3>3 DEF BatchInv
  <2>7. QED
    BY <1>3, <2>3, <2>4, <2>5, <2>6
<1>11. StopInv'
  BY <1>6 DEF IInv, StopInv
<1>12. RowsInv'
  <2> SUFFICES ASSUME NEW k \in Models,
                      k \in testingModels' \/ testResults'[k] = "testing"
               PROVE  \E f \in flight : f.model = k
    BY <1>2 DEF RowsInv
  <2>1. k # m /\ (k \in testingModels \/ testResults[k] = "testing")
    BY <1>0, <1>5 DEF TypeOK
  <2>2. QED
    BY <1>2, <2>1 DEF IInv, RowsInv
<1>13. ends = {} => Alive' = Alive
  BY <1>3, <1>4 DEF Alive
<1>14. ~overlapped /\ ends # {} => Alive' = {}
  <2> SUFFICES ASSUME ~overlapped, NEW e \in ends PROVE Alive' = {}
    OBVIOUS
  <2>1. e \in Alive
    BY <1>3 DEF Alive
  <2>2. \A c \in Batches : c # e => c \notin Alive /\ c \notin done
    BY <1>3, <2>1 DEF IInv, LoneInv, Alive
  <2>3. QED
    BY <1>4, <2>2 DEF Alive
<1>15. LoneInv'
  BY <1>5, <1>6, <1>13, <1>14 DEF IInv, LoneInv
<1>16. ProgressInv'
  <2> SUFFICES ASSUME ~overlapped
               PROVE  /\ isBatchTesting' <=> Alive' \ abandoned # {}
                      /\ batchProgress' # None =>
                           /\ batchProgress'.completed < batchProgress'.total
                           /\ \E c \in Alive' :
                                batchProgress' = Completed(c, inFlight)'
    BY <1>5 DEF ProgressInv, None
  <2>1. CASE ends # {}
    BY <1>5, <1>6, <1>14, <2>1
  <2>2. CASE ends = {}
    <3>1. isBatchTesting' <=> Alive' \ abandoned # {}
      BY <1>6, <1>13, <2>2 DEF IInv, ProgressInv
    <3>2. \A c \in Batches :
            Completed(c, inFlight)' = Completed(c, flight)
      <4>1. \A c \in Batches : /\ batches'[c].total = batches[c].total
                               /\ batches'[c].todo = batches[c].todo
        BY <1>4, <2>2
      <4>2. QED
        BY <1>2, <4>1 DEF Completed
    <3>3. CASE heard # {}
      <4> DEFINE b == last
      <4>1. b \in heard /\ batchProgress' = Completed(b, flight)
        BY <1>5, <1>7, <2>2, <3>3
      <4> HIDE DEF b
      <4>2. b \in Batches /\ batches[b].pc = "group"
        BY <1>3, <4>1
      <4>3. batches[b].todo # {} \/ \E f \in flight : f.run = b
        BY <1>3, <2>2, <4>1
      <4>4. batchProgress'.completed < batchProgress'.total
        BY <1>0, <1>2, <4>1, <4>2, <4>3, CompletedIs
      <4>5. b \in Alive'
        BY <1>13, <2>2, <4>2 DEF Alive
      <4>6. QED
        BY <3>1, <3>2, <4>1, <4>2, <4>4, <4>5
    <3>4. CASE heard = {}
      <4>1. \A c \in Batches : c # Alone
        BY ChannelTestAssumption DEF Batches, Alone
      <4>2. \A c \in Batches :
              {f \in flight : f.run = c} = {f \in inFlight : f.run = c}
        BY <1>2, <3>4, <4>1
      <4>3. \A c \in Batches : Completed(c, flight) = Completed(c, inFlight)
        BY <4>2 DEF Completed
      <4>4. batchProgress' = batchProgress
        BY <1>5, <2>2, <3>4
      <4>5. Alive \subseteq Batches
        BY DEF Alive
      <4>6. QED
        BY <1>13, <2>2, <3>1, <3>2, <4>3, <4>4, <4>5 DEF IInv, ProgressInv
    <3>5. QED
      BY <3>3, <3>4
  <2>3. QED
    BY <2>1, <2>2
<1>17. QED
  BY <1>8, <1>9, <1>10, <1>11, <1>12, <1>15, <1>16 DEF IInv

LEMMA WakeInv ==
  ASSUME IInv, NEW b \in Batches, Wake(b)
  PROVE  IInv'
<1>1. CASE WakeBlind(b)
  BY <1>1, WakeGroupInv
<1>2. CASE ~WakeBlind(b)
  <2>1. /\ batches[b].pc = "sleep" /\ Finally({b}) /\ batchProgress' = None
        /\ batches' = [batches EXCEPT ![b] = Over]
        /\ UNCHANGED <<open, way, testResults, testingModels, inFlight,
                       abandoned, overlapped>>
    BY <1>2 DEF Wake
  <2>2. QED
    BY <2>1, WakeEndInv
<1>3. QED
  BY <1>1, <1>2

LEMMA NextInv == IInv /\ [Next]_vars => IInv'
<1> SUFFICES ASSUME IInv, [Next]_vars PROVE IInv'
  OBVIOUS
<1>0. TypeOK
  BY DEF IInv
<1>1. CASE Open
  BY <1>0, <1>1, ViewInv DEF Open, TypeOK
<1>2. CASE handleClose
  BY <1>2, CloseInv
<1>3. ASSUME NEW w \in Ways, handleEndpointTypeChange(w) PROVE IInv'
  BY <1>0, <1>3, ViewInv DEF handleEndpointTypeChange, TypeOK
<1>4. ASSUME NEW m \in Models, testSingleModel(m) PROVE IInv'
  BY <1>4, SingleInv
<1>5. ASSUME NEW b \in Batches, NEW ms \in SUBSET Models,
             handleBatchTest(b, ms)
      PROVE  IInv'
  BY <1>5, BatchTestInv
<1>6. CASE handleStopBatchTest
  BY <1>6, StopButtonInv
<1>7. ASSUME NEW m \in Models, NEW w \in Ways, Answer(m, w) PROVE IInv'
  BY <1>7, AnswerInv
<1>8. ASSUME NEW b \in Batches, Wake(b) PROVE IInv'
  BY <1>8, WakeInv
<1>9. CASE UNCHANGED vars
  <2>1. open' \in BOOLEAN /\ way' \in Ways
    BY <1>0, <1>9 DEF TypeOK, vars
  <2>2. UNCHANGED <<batchStopRequestedRef, shown, inFlight, batches,
                    abandoned, overlapped>>
    BY <1>9 DEF vars
  <2>3. QED
    BY <2>1, <2>2, ViewInv
<1>10. QED
  BY <1>1, <1>2, <1>3, <1>4, <1>5, <1>6, <1>7, <1>8, <1>9 DEF Next

LEMMA Invariance == Spec => []IInv
  BY InitInv, NextInv, PTL DEF Spec
-----------------------------------------------------------------------------
\* Type correctness of the dialog, for any numbers of models and batches; in
\* particular recordBatchResult never counts below zero or above the number
\* of models, even when batches of two openings share an answer.
THEOREM DialogTypeCorrect == Spec => []TypeOK
<1>1. IInv => TypeOK
  BY DEF IInv
<1>2. QED
  BY <1>1, Invariance, PTL

\* What the dialog shows is true: testingModels and testResults show a test
\* only while one waits for its answer, and without overlaps isBatchTesting
\* and batchProgress tell of a live batch and of nothing else.
THEOREM ShowsTheTruth == Spec => []ShownIsTrue
<1>1. IInv => ShownIsTrue
  BY DEF IInv, RowsInv, ProgressInv, ShownIsTrue
<1>2. QED
  BY <1>1, Invariance, PTL

\* The runs for which an action starts tests.
LEMMA StartedRuns ==
  ASSUME NEW b, NEW ms, NEW w, StartTests(b, ms, w)
  PROVE  {f.run : f \in inFlight' \ inFlight} \subseteq {b}
  BY DEF StartTests

LEMMA StopStep ==
  ASSUME IInv, Next
  PROVE  LET started == {f.run : f \in inFlight' \ inFlight}
         IN /\ isBatchStopRequested /\ isBatchStopRequested' => started = {}
            /\ ~overlapped' => started \cap abandoned = {}
<1> DEFINE started == {f.run : f \in inFlight' \ inFlight}
<1>0. TypeOK /\ FlightInv /\ BatchInv /\ StopInv /\ LoneInv
  BY DEF IInv
<1>1. ASSUME inFlight' \subseteq inFlight PROVE started = {}
  BY <1>1
<1>2. ASSUME \/ Open \/ handleClose \/ handleStopBatchTest
             \/ \E w \in Ways : handleEndpointTypeChange(w)
      PROVE  inFlight' \subseteq inFlight
  BY <1>2 DEF Open, handleClose, handleStopBatchTest,
       handleEndpointTypeChange
<1>3. ASSUME NEW m \in Models, NEW w \in Ways, Answer(m, w)
      PROVE  inFlight' \subseteq inFlight
  BY <1>3 DEF Answer
<1>4. ASSUME NEW m \in Models, testSingleModel(m)
      PROVE  /\ ~isBatchStopRequested
             /\ started \cap abandoned = {}
  <2>1. started \subseteq {Alone}
    BY <1>4, StartedRuns DEF testSingleModel
  <2>2. Alone \notin abandoned
    BY <1>0, ChannelTestAssumption DEF TypeOK, Batches, Alone
  <2>3. ~isBatchStopRequested
    BY <1>0, <1>4 DEF testSingleModel, StopInv
  <2>4. QED
    BY <2>1, <2>2, <2>3
<1>5. ASSUME NEW b \in Batches, NEW ms \in SUBSET Models,
             handleBatchTest(b, ms)
      PROVE  /\ ~isBatchStopRequested'
             /\ started \cap abandoned = {}
  <2>1. started \subseteq {b}
    BY <1>5, StartedRuns DEF handleBatchTest
  <2>2. b >= b
    BY DEF Batches
  <2>3. b \notin abandoned
    BY <1>0, <1>5, <2>2 DEF handleBatchTest, BatchInv
  <2>4. QED
    BY <1>5, <2>1, <2>3 DEF handleBatchTest
<1>6. ASSUME NEW b \in Batches, WakeBlind(b), ~batchStopRequestedRef
      PROVE  /\ ~isBatchStopRequested
             /\ ~overlapped' => started \cap abandoned = {}
  <2>1. started \subseteq {b}
    BY <1>6, StartedRuns DEF WakeBlind
  <2>2. b \in Alive /\ overlapped' = overlapped
    BY <1>6 DEF WakeBlind, Alive
  <2>3. ~overlapped => b \notin abandoned
    BY <1>0, <1>6, <2>2 DEF LoneInv
  <2>4. QED
    BY <1>0, <1>6, <2>1, <2>2, <2>3 DEF StopInv
<1>7. ASSUME NEW b \in Batches, Wake(b)
      PROVE  \/ WakeBlind(b) /\ ~batchStopRequestedRef
             \/ inFlight' \subseteq inFlight
  BY <1>7 DEF Wake
<1> HIDE DEF started
<1>8. /\ isBatchStopRequested /\ isBatchStopRequested' => started = {}
      /\ ~overlapped' => started \cap abandoned = {}
  BY <1>1, <1>2, <1>3, <1>4, <1>5, <1>6, <1>7 DEF Next
<1>9. QED
  BY <1>8 DEF started

\* A stop is kept: while the dialog says that it is stopping no test starts,
\* and a batch whose dialog was closed starts no further group unless
\* batches have overlapped, since handleBatchTest looks at
\* batchStopRequestedRef after the group and after the pause.
THEOREM StopsAreKept == Spec => StopIsKept
<1>1. IInv /\ [Next]_vars =>
        [LET started == {f.run : f \in inFlight' \ inFlight}
         IN /\ isBatchStopRequested /\ isBatchStopRequested' => started = {}
            /\ ~overlapped' => started \cap abandoned = {}]_vars
  BY StopStep
<1>2. QED
  BY <1>1, Invariance, PTL DEF Spec, StopIsKept
=============================================================================
