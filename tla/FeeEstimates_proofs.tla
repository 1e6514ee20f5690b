------------------------- MODULE FeeEstimates_proofs -------------------------
(***************************************************************************)
(* Theorems about FeeEstimates, for every width of the estimates that      *)
(* holds the defaults and for all that bitcoind may answer: the floor, and *)
(* that a poll between two changes of its answers gets the estimates right. *)
(***************************************************************************)
EXTENDS FeeEstimates, SequenceTheorems, TLAPS

Rates == MIN_FEERATE..Width - 1

(* What a poll makes of an answer is at or above the floor.                *)
LEMMA EstimateIsRate ==
  ASSUME NEW m \in Markets, NEW q \in Questions
  PROVE  Estimate(q, m[q]) \in Rates
<1> USE WidthAssumption, MarketsAssumption DEF Rates, MIN_FEERATE, Questions
<1>1. CASE m[q] = NoAnswer
  <2>1. Default[q] \in {MIN_FEERATE, 2000, 5000, 50000}
    BY DEF Default
  <2> QED  BY <1>1, <2>1 DEF Estimate
<1>2. CASE m[q] # NoAnswer
  <2>1. m[q] \in Nat
    BY <1>2
  <2>2. SatPerKw(m[q]) \in 0..Width - 1
    BY <2>1 DEF SatPerKw
  <2> QED  BY <1>2, <2>2 DEF Estimate, Floor
<1> QED  BY <1>1, <1>2

(* u32 subtraction of something not larger does not wrap.                  *)
LEMMA NoWrap ==
  ASSUME NEW r \in Rates
  PROVE  (r - 250) % Width = r - 250
<1>1. r - 250 \in 0..Width - 1
  BY WidthAssumption DEF Rates, MIN_FEERATE
<1> QED  BY <1>1, WidthAssumption, SMT

(* What is stored of a complete poll.                                      *)
LEMMA StoredValue ==
  ASSUME got \in Seq(Rates), Len(got) = 5, NEW t \in ConfirmationTarget
  PROVE  IF t = "MinAllowedNonAnchorChannelRemoteFee"
         THEN Derived(got, t) \in 0..Width - 1 - 250
         ELSE Derived(got, t) \in Rates
<1>1. \A q \in Questions : got[q] \in Rates
  BY ElementOfSeq DEF Questions
<1>2. (got[2] - 250) % Width = got[2] - 250
  BY <1>1, NoWrap DEF Questions
<1>3. CASE t = "MinAllowedNonAnchorChannelRemoteFee"
  <2>1. Derived(got, t) = (got[2] - 250) % Width
    BY <1>3, Zenon DEF Derived
  <2> QED  BY <1>1, <1>2, <1>3, <2>1, WidthAssumption DEF Questions, Rates, MIN_FEERATE
<1>4. CASE t # "MinAllowedNonAnchorChannelRemoteFee"
  <2>1. \E q \in Questions : Derived(got, t) = got[q]
    <3> HIDE DEF Rates
    <3>1. {1, 2, 3, 4, 5} \subseteq Questions
      BY DEF Questions
    <3> QED  BY <1>4, <3>1 DEF Derived, ConfirmationTarget
  <2> QED  BY <1>1, <1>4, <2>1
<1> QED  BY <1>3, <1>4

LEMMA TargetsOfStores == \A k \in 1..8 : Stores[k] \in ConfirmationTarget
  BY DEF ConfirmationTarget

(* A store sets one target, from a complete poll.                          *)
LEMMA StoreSetsTarget ==
  ASSUME Store, stored \in 0..8
  PROVE  \E t \in ConfirmationTarget : fees' = [fees EXCEPT ![t] = Derived(got, t)]
<1>1. stored' \in 1..8
  BY DEF Store
<1> DEFINE u == Stores[stored']
<1>2. u \in ConfirmationTarget
  BY <1>1, TargetsOfStores
<1>3. fees' = [fees EXCEPT ![u] = Derived(got, u)]
  BY DEF Store
<1> HIDE DEF u
<1> QED  BY <1>2, <1>3

LEMMA DefaultsAreRates == DefaultFees \in [ConfirmationTarget -> Rates]
  BY WidthAssumption DEF DefaultFees, Rates, MIN_FEERATE

LEMMA TypeNext == TypeOK /\ [Next]_vars => TypeOK'
<1> SUFFICES ASSUME TypeOK, [Next]_vars PROVE TypeOK'
  OBVIOUS
<1> USE WidthAssumption DEF TypeOK
<1>0. /\ Rates = MIN_FEERATE..Width - 1
      /\ Rates \subseteq 0..Width - 1
      /\ <<>> \in Seq(Rates) /\ Len(<<>>) = 0
  BY EmptySeq DEF Rates, MIN_FEERATE
<1>1. CASE MarketMoves
  BY <1>1 DEF MarketMoves
<1>2. CASE Ask
  <2>1. Len(got) + 1 \in Questions
    BY <1>2, LenProperties DEF Ask, Questions
  <2>2. PICK e \in Rates : got' = Append(got, e)
    BY <1>2, <2>1, EstimateIsRate DEF Ask
  <2>3. got' \in Seq(Rates) /\ Len(got') = Len(got) + 1
    BY <2>2, <1>0, AppendProperties
  <2> QED  BY <1>0, <1>2, <2>3, LenProperties DEF Ask
<1>3. CASE AskFails
  BY <1>3 DEF AskFails
<1>4. CASE Store
  <2>1. stored' \in 1..8 /\ got \in Seq(Rates) /\ Len(got) = 5
    BY <1>0, <1>4 DEF Store
  <2>2. PICK t \in ConfirmationTarget : fees' = [fees EXCEPT ![t] = Derived(got, t)]
    BY <1>4, StoreSetsTarget
  <2>3. Derived(got, t) \in 0..Width - 1
    BY <1>0, <2>1, StoredValue DEF Rates
  <2>4. fees' \in [ConfirmationTarget -> 0..Width - 1]
    BY <2>2, <2>3
  <2>5. stored' \in 0..8 /\ UNCHANGED <<market, got, task>>
    BY <1>4, <2>1 DEF Store
  <2> QED  BY <2>4, <2>5
<1>5. CASE Sleep
  BY <1>0, <1>5 DEF Sleep
<1>6. CASE Wake
  BY <1>6 DEF Wake
<1>7. CASE Restart
  BY <1>0, <1>7, DefaultsAreRates DEF Restart
<1>8. CASE UNCHANGED vars
  BY <1>8 DEF vars
<1> QED  BY <1>1, <1>2, <1>3, <1>4, <1>5, <1>6, <1>7, <1>8 DEF Next

LEMMA FloorNext == TypeOK /\ AboveFloor /\ [Next]_vars => AboveFloor'
<1> SUFFICES ASSUME TypeOK, AboveFloor, [Next]_vars PROVE AboveFloor'
  OBVIOUS
<1> USE WidthAssumption DEF AboveFloor, get_est_sat_per_1000_weight
<1>1. CASE UNCHANGED fees
  BY <1>1
<1>2. CASE Store
  <2>1. stored' \in 1..8 /\ got \in Seq(Rates) /\ Len(got) = 5
    BY <1>2 DEF Store, TypeOK, Rates
  <2>2. PICK t \in ConfirmationTarget : fees' = [fees EXCEPT ![t] = Derived(got, t)]
    BY <1>2, StoreSetsTarget DEF TypeOK
  <2>3. IF t = "MinAllowedNonAnchorChannelRemoteFee"
        THEN Derived(got, t) <= Width - 1 - 250 ELSE Derived(got, t) >= MIN_FEERATE
    BY <2>1, StoredValue DEF Rates, MIN_FEERATE
  <2> QED  BY <2>2, <2>3 DEF TypeOK
<1>3. CASE Restart
  BY <1>3 DEF Restart, DefaultFees, MIN_FEERATE
<1> QED  BY <1>1, <1>2, <1>3 DEF Next, vars, MarketMoves, Ask, AskFails, Sleep, Wake

(* The estimates are u32 and the poll is at one place, whatever bitcoind   *)
(* answers (bitcoind_client.rs:122-230).                                   *)
THEOREM TypeCorrect == Spec => []TypeOK
<1>1. Init => TypeOK
  <2>1. <<>> \in Seq(MIN_FEERATE..Width - 1) /\ Len(<<>>) = 0
    BY EmptySeq
  <2>2. Rates \subseteq 0..Width - 1
    BY WidthAssumption DEF Rates, MIN_FEERATE
  <2>3. DefaultFees \in [ConfirmationTarget -> 0..Width - 1]
    BY <2>2, DefaultsAreRates
  <2> QED  BY <2>1, <2>3 DEF Init, TypeOK
<1> QED  BY <1>1, TypeNext, PTL DEF Spec

(* No feerate that goes into a transaction is ever below the floor, and    *)
(* the subtraction of bitcoind_client.rs:214 never wraps.                  *)
THEOREM FloorHolds == Spec => []AboveFloor
<1>1. Init => AboveFloor
  BY WidthAssumption DEF Init, AboveFloor, get_est_sat_per_1000_weight, DefaultFees, MIN_FEERATE
<1> QED  BY <1>1, TypeCorrect, FloorNext, PTL DEF Spec

-----------------------------------------------------------------------------
(* A poll during which the answers stay the same.                          *)

Answers(m) == [q \in Questions |-> Estimate(q, m[q])]

(* Stores come after the answers, and nothing of a poll outlives it.       *)
InOrder ==
  /\ stored > 0 => Len(got) = 5
  /\ task = "sleeping" => got = <<>>

(* What the poll has is what bitcoind answers, and so is what it stored.   *)
Calm(m) ==
  /\ \A q \in 1..Len(got) : got[q] = Estimate(q, m[q])
  /\ \A k \in 1..stored : fees[Stores[k]] = Derived(Answers(m), Stores[k])
  /\ task = "sleeping" => Follow(m)

LEMMA InOrderNext == TypeOK /\ InOrder /\ [Next]_vars => InOrder'
<1> SUFFICES ASSUME TypeOK, InOrder, [Next]_vars PROVE InOrder'
  OBVIOUS
<1> USE DEF TypeOK, InOrder
<1>0. Len(<<>>) = 0
  OBVIOUS
<1>1. CASE MarketMoves
  BY <1>1 DEF MarketMoves
<1>2. CASE Ask
  BY <1>2, LenProperties DEF Ask
<1>3. CASE AskFails
  BY <1>3 DEF AskFails
<1>4. CASE Store
  BY <1>4 DEF Store
<1>5. CASE Sleep
  BY <1>5 DEF Sleep
<1>6. CASE Wake
  BY <1>6 DEF Wake
<1>7. CASE Restart
  BY <1>7 DEF Restart
<1>8. CASE UNCHANGED vars
  BY <1>8 DEF vars
<1> QED  BY <1>1, <1>2, <1>3, <1>4, <1>5, <1>6, <1>7, <1>8 DEF Next

(* The eight stores are of eight targets.                                  *)
LEMMA StoresAreDifferent ==
  ASSUME NEW k \in 1..8, NEW l \in 1..8, Stores[k] = Stores[l]
  PROVE  k = l
  BY DEF Stores

(* A complete poll holds the answers to all five questions.                *)
LEMMA CalmIsComplete ==
  ASSUME NEW m \in Markets, TypeOK, Calm(m), Len(got) = 5, NEW t \in ConfirmationTarget
  PROVE  Derived(got, t) = Derived(Answers(m), t)
<1>1. \A q \in Questions : got[q] = Answers(m)[q]
  BY DEF Calm, Questions, Answers
<1>2. /\ got[1] = Answers(m)[1] /\ got[2] = Answers(m)[2] /\ got[3] = Answers(m)[3]
      /\ got[4] = Answers(m)[4] /\ got[5] = Answers(m)[5]
  BY <1>1 DEF Questions
<1> QED  BY <1>2, Zenon DEF Derived

LEMMA CalmStore ==
  ASSUME NEW m \in Markets, TypeOK, InOrder, Calm(m), Store
  PROVE  Calm(m)'
<1>1. /\ stored' = stored + 1 /\ stored' \in 1..8 /\ stored \in 0..7 /\ Len(got) = 5
      /\ task = "polling" /\ UNCHANGED <<got, task>>
  BY DEF Store, TypeOK
<1> DEFINE u == Stores[stored']
<1>2. u \in ConfirmationTarget /\ fees' = [fees EXCEPT ![u] = Derived(got, u)]
  BY <1>1, TargetsOfStores DEF Store
<1>3. Derived(got, u) = Derived(Answers(m), u)
  BY <1>1, <1>2, CalmIsComplete
<1>4. ASSUME NEW k \in 1..stored' PROVE fees'[Stores[k]] = Derived(Answers(m), Stores[k])
  <2>1. Stores[k] \in ConfirmationTarget /\ k \in 1..8
    BY <1>1, TargetsOfStores
  <2>2. CASE k = stored'
    BY <1>2, <1>3, <2>1, <2>2 DEF TypeOK
  <2>3. CASE k # stored'
    <3>1. k \in 1..stored /\ Stores[k] # u
      BY <1>1, <2>1, <2>3, StoresAreDifferent
    <3>2. fees'[Stores[k]] = fees[Stores[k]]
      BY <1>2, <2>1, <3>1 DEF TypeOK
    <3> QED  BY <3>1, <3>2 DEF Calm
  <2> QED  BY <2>2, <2>3
<1> QED  BY <1>1, <1>4 DEF Calm

LEMMA CalmNext ==
  ASSUME NEW m \in Markets, TypeOK, InOrder, Calm(m), market = m, [Next]_vars
  PROVE  Calm(m)'
<1>1. CASE MarketMoves
  BY <1>1 DEF MarketMoves, Calm, Follow
<1>2. CASE Ask
  <2> DEFINE q == Len(got) + 1
  <2>1. /\ Len(got) \in Nat /\ got' = Append(got, Estimate(q, m[q])) /\ task = "polling"
        /\ UNCHANGED <<fees, stored, task>>
    BY <1>2, LenProperties DEF Ask, TypeOK
  <2>2. Len(got') = q /\ got'[q] = Estimate(q, m[q]) /\ \A r \in 1..Len(got) : got'[r] = got[r]
    BY <2>1, AppendProperties DEF TypeOK
  <2>3. \A r \in 1..Len(got') : got'[r] = Estimate(r, m[r])
    BY <2>1, <2>2 DEF Calm
  <2> QED  BY <2>1, <2>3 DEF Calm
<1>3. CASE AskFails
  BY <1>3 DEF AskFails, Calm
<1>4. CASE Store
  BY <1>4, CalmStore
<1>5. CASE Sleep
  <2>1. Follow(m)'
    <3> SUFFICES ASSUME NEW t \in ConfirmationTarget PROVE fees'[t] = Derived(Answers(m), t)
      BY DEF Follow, Answers
    <3>1. PICK k \in 1..8 : t = Stores[k]
      BY DEF ConfirmationTarget
    <3> QED  BY <1>5, <3>1 DEF Sleep, Calm
  <2>2. got' = <<>> /\ stored' = 0
    BY <1>5 DEF Sleep
  <2> QED  BY <2>1, <2>2 DEF Calm
<1>6. CASE Wake
  BY <1>6 DEF Wake, Calm
<1>7. CASE Restart
  BY <1>7 DEF Restart, Calm
<1>8. CASE UNCHANGED vars
  BY <1>8 DEF vars, Calm, Follow
<1> QED  BY <1>1, <1>2, <1>3, <1>4, <1>5, <1>6, <1>7, <1>8 DEF Next

(* A poll during which bitcoind's answers stay the same, and every poll    *)
(* after it while they do, leaves all eight estimates right, whatever was  *)
(* stored before (bitcoind_client.rs:125-229).                             *)
THEOREM CalmPollFollowsCorrect == Spec => CalmPollFollows
<1>1. Init => InOrder
  BY DEF Init, InOrder
<1>2. Spec => []InOrder
  BY <1>1, TypeCorrect, InOrderNext, PTL DEF Spec
<1>3. ASSUME NEW m \in Markets
      PROVE  Spec => [](task = "polling" /\ got = <<>> /\ [](market = m)
                          => [](task = "sleeping" => Follow(m)))
  <2>1. TypeOK /\ InOrder /\ task = "polling" /\ got = <<>> => Calm(m)
    <3> SUFFICES ASSUME TypeOK, InOrder, task = "polling", got = <<>> PROVE Calm(m)
      OBVIOUS
    <3>1. Len(got) = 0 /\ stored = 0
      BY DEF TypeOK, InOrder
    <3> QED  BY <3>1 DEF Calm
  <2>2. TypeOK /\ InOrder /\ Calm(m) /\ market = m /\ [Next]_vars => Calm(m)'
    BY CalmNext
  <2>3. Calm(m) => (task = "sleeping" => Follow(m))
    BY DEF Calm
  <2> QED  BY <1>2, <2>1, <2>2, <2>3, TypeCorrect, PTL DEF Spec
<1> QED  BY <1>3 DEF CalmPollFollows
=============================================================================
