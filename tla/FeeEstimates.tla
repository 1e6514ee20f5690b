----------------------------- MODULE FeeEstimates -----------------------------
(***************************************************************************)
(* The fee estimates of BitcoindClient (bitcoind_client.rs:68-230), eight  *)
(* atomics that LDK and the funding of channels read at any time, and the  *)
(* task that refreshes them: five questions to bitcoind, one after the     *)
(* other, and then eight stores, one after the other.                      *)
(*                                                                         *)
(* What bitcoind would answer, in sat/kvB, is its own and changes at any   *)
(* time, between two questions of a poll too.                              *)
(***************************************************************************)
EXTENDS Integers, Sequences

CONSTANTS
  Markets,   \* the answers bitcoind may have: functions from Questions
  NoAnswer,  \* "feerate" is missing from the answer
  Width      \* 2^32: the estimates are u32

(* The questions of a poll, in order: getmempoolinfo, and estimatesmartfee *)
(* for 144, 18, 6 and 2 blocks.                                            *)
Questions == 1..5

(* The largest default must be a u32.                                      *)
ASSUME WidthAssumption == Width \in Nat /\ Width > 50000
ASSUME MarketsAssumption == Markets \subseteq [Questions -> Nat \cup {NoAnswer}]
ASSUME NoAnswerAssumption == NoAnswer \notin Nat

VARIABLES
  market,  \* external: what bitcoind would answer now
  fees,    \* fees: HashMap<ConfirmationTarget, AtomicU32>
  got,     \* the estimates this poll has
  stored,  \* how many of them are stored
  task     \* "polling", "sleeping" or "aborted": an RPC failed

vars == <<market, fees, got, stored, task>>

MIN_FEERATE == 253

(* The eight stores, in the order of lines 203-226.                        *)
Stores == <<"MaximumFeeEstimate", "UrgentOnChainSweep", "MinAllowedAnchorChannelRemoteFee",
            "MinAllowedNonAnchorChannelRemoteFee", "AnchorChannelFee", "NonAnchorChannelFee",
            "ChannelCloseMinimum", "OutputSpendingFee">>

ConfirmationTarget == {Stores[k] : k \in 1..8}

(* BitcoindClient::new.                                                    *)
DefaultFees == [t \in ConfirmationTarget |->
  CASE t = "MaximumFeeEstimate"  -> 50000
    [] t = "UrgentOnChainSweep"  -> 5000
    [] t = "NonAnchorChannelFee" -> 2000
    [] OTHER                     -> MIN_FEERATE]

-----------------------------------------------------------------------------
(* TryInto<FeeResponse> and TryInto<MempoolMinFeeResponse>: from sat/kvB   *)
(* to sat/kW.  round() takes halves up, and the cast to u32 saturates.     *)
SatPerKw(rate) == LET r == (rate + 2) \div 4 IN IF r < Width THEN r ELSE Width - 1

(* For an answer without an estimate.                                      *)
Default == <<MIN_FEERATE, MIN_FEERATE, 2000, 5000, 50000>>

(* Faulty variant: bitcoind's own answer is not raised to the floor.       *)
EstimateWithoutFloor(q, answer) ==
  IF answer = NoAnswer THEN Default[q] ELSE SatPerKw(answer)

Floor(rate) == IF rate < MIN_FEERATE THEN MIN_FEERATE ELSE rate

(* Lines 127-201, for each question.                                       *)
Estimate(q, answer) ==
  IF answer = NoAnswer THEN Default[q] ELSE Floor(SatPerKw(answer))

(* Which estimate is stored for a target; the subtraction is one of u32.   *)
Derived(e, t) ==
  CASE t = "MaximumFeeEstimate"                  -> e[5]
    [] t = "UrgentOnChainSweep"                  -> e[4]
    [] t = "NonAnchorChannelFee"                 -> e[3]
    [] t = "MinAllowedAnchorChannelRemoteFee"    -> e[1]
    [] t = "MinAllowedNonAnchorChannelRemoteFee" -> (e[2] - 250) % Width
    [] OTHER                                     -> e[2]

get_est_sat_per_1000_weight(t) == fees[t]

-----------------------------------------------------------------------------
Init ==
  /\ market \in Markets
  /\ fees = DefaultFees
  /\ got = <<>>
  /\ stored = 0
  /\ task = "polling"

(* External: bitcoind sees other transactions or a new block.              *)
MarketMoves ==
  /\ market' \in Markets \ {market}
  /\ UNCHANGED <<fees, got, stored, task>>

(* The next question is answered.                                          *)
Ask ==
  /\ task = "polling"
  /\ Len(got) < 5
  /\ LET q == Len(got) + 1 IN got' = Append(got, Estimate(q, market[q]))
  /\ UNCHANGED <<market, fees, stored, task>>

(* It is not (or maxmempool is not the default one, convert.rs:86): the    *)
(* unwrap ends the process.                                                *)
AskFails ==
  /\ task = "polling"
  /\ Len(got) < 5
  /\ task' = "aborted"
  /\ UNCHANGED <<market, fees, got, stored>>

(* Faulty variant: the last target is left out of the stores.              *)
StoreAllButLast ==
  /\ task = "polling"
  /\ Len(got) = 5
  /\ stored < 8
  /\ stored' = stored + 1
  /\ LET t == Stores[stored'] IN
       fees' = IF stored' = 8 THEN fees ELSE [fees EXCEPT ![t] = Derived(got, t)]
  /\ UNCHANGED <<market, got, task>>

Store ==
  /\ task = "polling"
  /\ Len(got) = 5
  /\ stored < 8
  /\ stored' = stored + 1
  /\ LET t == Stores[stored'] IN fees' = [fees EXCEPT ![t] = Derived(got, t)]
  /\ UNCHANGED <<market, got, task>>

(* Faulty variant: the poll ends one store early.                          *)
SleepEarly ==
  /\ task = "polling"
  /\ stored = 7
  /\ task' = "sleeping"
  /\ got' = <<>>
  /\ stored' = 0
  /\ UNCHANGED <<market, fees>>

Sleep ==
  /\ task = "polling"
  /\ stored = 8
  /\ task' = "sleeping"
  /\ got' = <<>>
  /\ stored' = 0
  /\ UNCHANGED <<market, fees>>

(* A minute later.                                                         *)
Wake ==
  /\ task = "sleeping"
  /\ task' = "polling"
  /\ UNCHANGED <<market, fees, got, stored>>

(* The node is started again: new() asks bitcoind once, and starts a poll. *)
Restart ==
  /\ task = "aborted"
  /\ task' = "polling"
  /\ fees' = DefaultFees
  /\ got' = <<>>
  /\ stored' = 0
  /\ UNCHANGED market

Next == MarketMoves \/ Ask \/ AskFails \/ Store \/ Sleep \/ Wake \/ Restart

Spec == Init /\ [][Next]_vars

(* bitcoind answers or the call fails; the task goes on; nobody is obliged *)
(* to start an aborted node again.                                         *)
FairSpec == Spec /\ WF_vars(Ask \/ AskFails) /\ WF_vars(Store \/ Sleep \/ Wake)

-----------------------------------------------------------------------------
(* Every atomic is a u32, and a poll is at one place.                      *)
TypeOK ==
  /\ market \in Markets
  /\ fees \in [ConfirmationTarget -> 0..Width - 1]
  /\ got \in Seq(MIN_FEERATE..Width - 1)
  /\ Len(got) <= 5
  /\ stored \in 0..8
  /\ task \in {"polling", "sleeping", "aborted"}

(* Whatever bitcoind answers and at whatever moment LDK reads, no feerate  *)
(* that goes into a transaction is below the floor, and the one that is    *)
(* 250 below an estimate (bitcoind_client.rs:214) has not wrapped round.   *)
AboveFloor ==
  \A t \in ConfirmationTarget :
    IF t = "MinAllowedNonAnchorChannelRemoteFee"
    THEN get_est_sat_per_1000_weight(t) <= Width - 1 - 250
    ELSE get_est_sat_per_1000_weight(t) >= MIN_FEERATE

(* What the estimates should be when bitcoind's answers are those of m.     *)
Follow(m) ==
  \A t \in ConfirmationTarget : fees[t] = Derived([q \in Questions |-> Estimate(q, m[q])], t)

(* A poll during which bitcoind's answers stay the same leaves all eight   *)
(* estimates right, whatever an earlier poll, cut short by an error or     *)
(* mixed from two moments, had left in them, and so does every poll after  *)
(* it while they still stay the same: no answer of another poll is stored, *)
(* and no target is left out (lines 125-229).                              *)
CalmPollFollows ==
  \A m \in Markets :
    [](task = "polling" /\ got = <<>> /\ [](market = m)
         => [](task = "sleeping" => Follow(m)))

(* Estimates of two polls, or of two moments of one poll, are mixed while  *)
(* bitcoind's change, and only then: once its answers stay the same and    *)
(* the node stays up, all eight are, for good, those that follow from them *)
(* (the stores of lines 203-226, one after the other).                     *)
Follows ==
  \A m \in Markets :
    <>[](market = m /\ task # "aborted") => <>[]Follow(m)
=============================================================================
