------------------------- MODULE DisputeFundsProofs -------------------------
(***************************************************************************)
(* Proofs about the tokens of GlobalDisputes: the fees of a dispute can be *)
(* refunded, no lock exceeds its account's balance, and the storage is     *)
(* well typed.                                                             *)
(***************************************************************************)
EXTENDS GlobalDisputesProofs

-----------------------------------------------------------------------------
(* The reward accounts *)

(* The outcomes among os that were added for a fee.                         *)
Paid(os) ==
  {o \in OutcomeReports : os[o] # None /\ os[o].possession.kind = "Paid"}

Fees(os) == VotingOutcomeFee * Cardinality(Paid(os))

Backed(info, os, p) ==
  /\ p \in Nat
  /\ info = None => p = 0
  /\ info # None /\ info.status.kind \in {"Active", "Destroyed"} => p = Fees(os)

PotInv ==
  /\ pot \in [MarketIds -> Nat]
  /\ \A m \in MarketIds : Backed(GlobalDisputesInfo[m], Outcomes[m], pot[m])

LEMMA FeesType ==
  ASSUME NEW S \in SUBSET OutcomeReports
  PROVE  /\ IsFiniteSet(S) /\ Cardinality(S) \in Nat
         /\ VotingOutcomeFee * Cardinality(S) \in Nat
<1>1. IsFiniteSet(OutcomeReports) /\ VotingOutcomeFee \in Nat
  BY GlobalDisputesAssumption
<1>2. IsFiniteSet(S)
  BY <1>1, FS_Subset
<1>3. Cardinality(S) \in Nat
  BY <1>2, FS_CardinalityType
<1> QED BY <1>1, <1>2, <1>3

LEMMA PotStep ==
  ASSUME DisputeInv, PotInv, NEW m \in MarketIds, NEW info, NEW os, NEW p,
         Backed(info, os, p),
         GlobalDisputesInfo' = [GlobalDisputesInfo EXCEPT ![m] = info],
         Outcomes' = [Outcomes EXCEPT ![m] = os],
         pot' = [pot EXCEPT ![m] = p]
  PROVE  PotInv'
<1>1. p \in Nat
  BY DEF Backed
<1>2. ASSUME NEW k \in MarketIds
      PROVE  Backed(GlobalDisputesInfo'[k], Outcomes'[k], pot'[k])
  <2>1. CASE k = m
    BY <2>1 DEF PotInv, DisputeInv
  <2>2. CASE k # m
    BY <2>2 DEF PotInv, DisputeInv
  <2> QED BY <2>1, <2>2
<1>3. pot' \in [MarketIds -> Nat]
  BY <1>1 DEF PotInv
<1> QED BY <1>2, <1>3 DEF PotInv

LEMMA PotOf ==
  ASSUME PotInv, NEW m \in MarketIds
  PROVE  /\ Backed(GlobalDisputesInfo[m], Outcomes[m], pot[m])
         /\ pot = [pot EXCEPT ![m] = pot[m]]
BY DEF PotInv

(* The initial items are not paid for, so the pot starts empty.             *)
LEMMA PotOfStart ==
  ASSUME DisputeInv, PotInv, NEW m \in MarketIds, NEW items \in InitialItems,
         start_global_dispute(m, items)
  PROVE  PotInv'
<1> DEFINE end == Pushed(items)[Len(items)]
           os == end.outcomes
           first == now + AddOutcomePeriod
           info == [end.info EXCEPT !.status =
                      Active(first, first + GdVotingPeriod)]
<1>1. /\ GlobalDisputesInfo[m] = None /\ pot' = pot
      /\ GlobalDisputesInfo' = [GlobalDisputesInfo EXCEPT ![m] = info]
      /\ Outcomes' = [Outcomes EXCEPT ![m] = os]
  BY DEF start_global_dispute
<1>2. RoundInv(end)
  BY AfterTheLoop, GlobalDisputesAssumption
<1>3. pot[m] = 0 /\ pot' = [pot EXCEPT ![m] = pot[m]]
  BY <1>1, PotOf DEF Backed
<1> HIDE DEF end
<1>4. Paid(os) = {}
  BY <1>2 DEF RoundInv, Paid, SharedPossession
<1>5. Fees(os) = 0
  <2>1. VotingOutcomeFee \in Nat
    BY GlobalDisputesAssumption
  <2> QED BY <1>4, <2>1, FS_EmptySet DEF Fees
<1>6. Backed(info, os, pot[m])
  BY <1>3, <1>5 DEF Backed
<1> QED BY <1>1, <1>3, <1>6, PotStep, Zenon

LEMMA PotOfStatus ==
  ASSUME DisputeInv, PotInv, NEW m \in MarketIds,
         Resolves(m) \/ destroy_global_dispute(m)
  PROVE  PotInv'
<1> DEFINE old == GlobalDisputesInfo[m]
<1>1. PICK kind \in {"Finished", "Destroyed"} :
        GlobalDisputesInfo' = [GlobalDisputesInfo EXCEPT
                                 ![m].status = [kind |-> kind]]
  BY DEF Resolves, determine_voting_winner, destroy_global_dispute
<1>2. /\ old # None /\ old.status.kind = "Active"
      /\ Outcomes' = Outcomes /\ pot' = pot
  BY DEF Resolves, determine_voting_winner, destroy_global_dispute, HasStatus
<1> DEFINE info == [old EXCEPT !.status = [kind |-> kind]]
<1>3. /\ GlobalDisputesInfo' = [GlobalDisputesInfo EXCEPT ![m] = info]
      /\ old \in GlobalDisputeInfo
  BY <1>1, <1>2 DEF DisputeInv
<1>4. /\ Outcomes' = [Outcomes EXCEPT ![m] = Outcomes[m]]
      /\ pot' = [pot EXCEPT ![m] = pot[m]]
  BY <1>2, SoundDispute, PotOf
<1> HIDE DEF old
<1>5. info.status.kind = kind /\ info # None
  <2>1. info \in GlobalDisputeInfo
    BY <1>3 DEF GlobalDisputeInfo, GdStatus
  <2> QED BY <1>3, <2>1, NoneAssumption DEF GlobalDisputeInfo
<1> HIDE DEF info
<1>6. Backed(info, Outcomes[m], pot[m])
  BY <1>2, <1>5, PotOf DEF Backed, old
<1> QED BY <1>3, <1>4, <1>6, PotStep, Zenon

(* An added outcome brings its fee; a vote changes no outcome's owner.      *)
LEMMA PotOfGrowth ==
  ASSUME DisputeInv, PotInv, NEW m \in MarketIds, HasStatus(m, "Active"),
         NEW o \in OutcomeReports, NEW to \in OutcomeInfo, NEW p \in Nat,
         Outcomes[m][o] # None =>
           Outcomes[m][o].outcome_sum <= to.outcome_sum,
         p = Fees([Outcomes[m] EXCEPT ![o] = to]),
         GlobalDisputesInfo' = [GlobalDisputesInfo EXCEPT
           ![m] = update_winner(GlobalDisputesInfo[m], o, to)],
         Outcomes' = [Outcomes EXCEPT ![m][o] = to],
         pot' = [pot EXCEPT ![m] = p]
  PROVE  PotInv'
<1> DEFINE old == GlobalDisputesInfo[m]
           os == Outcomes[m]
           info == update_winner(old, o, to)
           grown == [os EXCEPT ![o] = to]
<1>1. Caches(old, os)
  BY SoundDispute DEF Sound, HasStatus
<1>2. Caches(info, grown)
  BY <1>1, UpdateWinner
<1>3. info # None
  BY <1>2, NoneAssumption DEF Caches
<1>4. Outcomes' = [Outcomes EXCEPT ![m] = grown]
  BY DEF DisputeInv
<1>5. p = Fees(grown) /\ GlobalDisputesInfo' = [GlobalDisputesInfo EXCEPT
                                                  ![m] = info]
  OBVIOUS
<1> HIDE DEF info, grown
<1>6. Backed(info, grown, p)
  BY <1>3, <1>5 DEF Backed
<1> QED BY <1>4, <1>5, <1>6, PotStep, Zenon

LEMMA PotOfAdd ==
  ASSUME DisputeInv, PotInv, NEW m \in MarketIds, NEW owner \in AccountIds,
         NEW o \in OutcomeReports, add_vote_outcome(m, owner, o)
  PROVE  PotInv'
<1> DEFINE possession == [kind |-> "Paid", owner |-> owner,
                          fee |-> VotingOutcomeFee]
           to == [outcome_sum |-> VotingOutcomeFee, possession |-> possession]
           os == Outcomes[m]
           grown == [os EXCEPT ![o] = to]
           p == pot[m] + VotingOutcomeFee
<1>1. /\ HasStatus(m, "Active") /\ os[o] = None
      /\ GlobalDisputesInfo' = [GlobalDisputesInfo EXCEPT
                                  ![m] = update_winner(@, o, to)]
      /\ Outcomes' = [Outcomes EXCEPT ![m][o] = to]
      /\ pot' = [pot EXCEPT ![m] = p]
  BY DEF add_vote_outcome, MayAddOutcome
<1>2. VotingOutcomeFee \in Nat
  BY GlobalDisputesAssumption
<1>3. to \in OutcomeInfo
  <2>1. possession \in Possession
    BY <1>2 DEF Possession
  <2> QED BY <1>2, <2>1 DEF OutcomeInfo
<1>4. to.possession.kind = "Paid" /\ to # None
  BY <1>3, NoneAssumption
<1>5. pot[m] \in Nat /\ pot[m] = Fees(os)
  BY <1>1, PotOf DEF Backed, HasStatus
<1>6. os \in OutcomesType
  BY DEF DisputeInv
<1> HIDE DEF to, os
<1>7. Paid(grown) = Paid(os) \cup {o} /\ o \notin Paid(os)
  BY <1>1, <1>4, <1>6 DEF Paid, OutcomesType
<1> HIDE DEF grown
<1>8. Cardinality(Paid(grown)) = Cardinality(Paid(os)) + 1
  <2>1. IsFiniteSet(Paid(os))
    BY FeesType DEF Paid
  <2> QED BY <1>7, <2>1, FS_AddElement
<1>9. p = Fees(grown) /\ p \in Nat
  <2>1. Cardinality(Paid(os)) \in Nat
    BY FeesType DEF Paid
  <2>2. VotingOutcomeFee * (Cardinality(Paid(os)) + 1)
          = VotingOutcomeFee * Cardinality(Paid(os)) + VotingOutcomeFee
    BY <1>2, <2>1
  <2> QED BY <1>2, <1>5, <1>8, <2>2 DEF Fees
<1> HIDE DEF p
<1> QED BY <1>1, <1>3, <1>9, PotOfGrowth, Zenon DEF grown, os

LEMMA PotOfVote ==
  ASSUME DisputeInv, PotInv, NEW m \in MarketIds, NEW voter \in AccountIds,
         NEW o \in OutcomeReports, NEW amount \in VoteAmounts,
         vote_on_outcome(m, voter, o, amount)
  PROVE  PotInv'
<1> DEFINE os == Outcomes[m]
           old == os[o]
           to == [old EXCEPT !.outcome_sum = @ + amount]
           grown == [os EXCEPT ![o] = to]
<1>1. /\ HasStatus(m, "Active") /\ old # None
      /\ GlobalDisputesInfo' = [GlobalDisputesInfo EXCEPT
                                  ![m] = update_winner(@, o, to)]
      /\ Outcomes' = [Outcomes EXCEPT ![m][o] = to]
      /\ pot' = pot
  BY DEF vote_on_outcome, InVotingPeriod
<1>2. amount \in Nat
  BY GlobalDisputesAssumption
<1>3. os \in OutcomesType
  BY DEF DisputeInv
<1>4. pot[m] \in Nat /\ pot[m] = Fees(os) /\ pot' = [pot EXCEPT ![m] = pot[m]]
  BY <1>1, PotOf DEF Backed, HasStatus
<1> HIDE DEF os
<1>5. old \in OutcomeInfo
  BY <1>1, <1>3 DEF OutcomesType
<1> HIDE DEF old
<1>6. /\ to \in OutcomeInfo /\ to.possession = old.possession
      /\ old.outcome_sum <= to.outcome_sum
  BY <1>2, <1>5 DEF OutcomeInfo
<1>7. to # None
  BY <1>6, NoneAssumption
<1> HIDE DEF to
<1>8. Paid(grown) = Paid(os)
  BY <1>1, <1>3, <1>6, <1>7 DEF Paid, OutcomesType, old
<1>9. pot[m] = Fees(grown)
  BY <1>4, <1>8 DEF Fees
<1> QED BY <1>1, <1>4, <1>6, <1>9, PotOfGrowth, Zenon DEF os, old

LEMMA WinnerSavedType ==
  ASSUME DisputeInv, NEW m \in MarketIds, GlobalDisputesInfo[m] # None
  PROVE  /\ WinnerSaved(m) \in GlobalDisputeInfo
         /\ WinnerSaved(m).status = GlobalDisputesInfo[m].status
<1> DEFINE old == GlobalDisputesInfo[m]
           saved == Outcomes[m][old.winner_outcome]
<1>1. old \in GlobalDisputeInfo /\ Outcomes[m] \in OutcomesType
  BY DEF DisputeInv
<1>2. saved # None => saved \in OutcomeInfo
  BY <1>1 DEF GlobalDisputeInfo, OutcomesType
<1>3. WinnerSaved(m) = IF saved = None THEN old
                       ELSE [old EXCEPT !.outcome_info = saved]
  BY DEF WinnerSaved
<1> HIDE DEF old, saved
<1>4. /\ WinnerSaved(m) \in GlobalDisputeInfo
      /\ WinnerSaved(m).status = old.status
  BY <1>1, <1>2, <1>3 DEF GlobalDisputeInfo
<1> QED BY <1>4 DEF old

LEMMA PotOfPurge ==
  ASSUME DisputeInv, PotInv, NEW m \in MarketIds, purge_outcomes(m)
  PROVE  PotInv'
<1> DEFINE old == GlobalDisputesInfo[m]
           info == WinnerSaved(m)
<1>1. PICK os : Outcomes' = [Outcomes EXCEPT ![m] = os]
  BY Zenon DEF purge_outcomes
<1>2. /\ old # None /\ old.status.kind = "Finished" /\ pot' = pot
      /\ GlobalDisputesInfo' = [GlobalDisputesInfo EXCEPT ![m] = info]
  BY DEF purge_outcomes, HasStatus
<1>3. pot' = [pot EXCEPT ![m] = pot[m]] /\ pot[m] \in Nat
  BY <1>2, PotOf DEF Backed
<1>4. info.status = old.status /\ info # None
  BY <1>2, WinnerSavedType, NoneAssumption
<1> HIDE DEF old, info
<1>5. Backed(info, os, pot[m])
  BY <1>2, <1>3, <1>4 DEF Backed
<1> QED BY <1>1, <1>2, <1>3, <1>5, PotStep, Zenon

(* Each refund takes the fee of an outcome that is removed with it.         *)
LEMMA PotOfRefund ==
  ASSUME DisputeInv, PotInv, NEW m \in MarketIds, refund_vote_fees(m)
  PROVE  PotInv'
<1> DEFINE info == GlobalDisputesInfo[m]
           os == Outcomes[m]
           Left(gone) == [o \in OutcomeReports |->
                            IF o \in gone THEN None ELSE os[o]]
           Rest(gone) == pot[m] - VotingOutcomeFee
                                  * Cardinality(PaidFor(m, gone))
<1>1. PICK gone \in SUBSET Added(m) :
        /\ Outcomes' = [Outcomes EXCEPT ![m] = Left(gone)]
        /\ pot' = [pot EXCEPT ![m] = Rest(gone)]
  <2>1. Drained(Added(m)) \subseteq SUBSET Added(m)
    BY DEF Drained
  <2>2. \E gone \in Drained(Added(m)) :
          /\ Outcomes' = [Outcomes EXCEPT ![m] = Left(gone)]
          /\ pot' = [pot EXCEPT ![m] = Rest(gone)]
    BY Zenon DEF refund_vote_fees
  <2> HIDE DEF Left, Rest
  <2> QED BY <2>1, <2>2, Zenon
<1>2. /\ info # None /\ info.status.kind = "Destroyed"
      /\ GlobalDisputesInfo' = GlobalDisputesInfo
  BY DEF refund_vote_fees, HasStatus
<1>3. /\ GlobalDisputesInfo' = [GlobalDisputesInfo EXCEPT ![m] = info]
      /\ pot[m] = Fees(os) /\ os \in OutcomesType
  BY <1>2, PotOf, SoundDispute DEF Backed, Sound
<1> DEFINE left == Left(gone)
           paid == PaidFor(m, gone)
<1>4. paid = Paid(os) \cap gone /\ Paid(left) = Paid(os) \ gone
  BY <1>1 DEF Paid, PaidFor, Added
<1>5. Outcomes' = [Outcomes EXCEPT ![m] = left]
  BY <1>1
<1>6. pot' = [pot EXCEPT ![m] = Rest(gone)]
  BY <1>1
<1>7. Rest(gone) = Fees(os) - VotingOutcomeFee * Cardinality(paid)
  BY <1>3
<1> HIDE DEF Rest, left, paid, os, info
<1>8. /\ Cardinality(Paid(os)) \in Nat /\ IsFiniteSet(Paid(os))
      /\ Cardinality(paid) \in Nat /\ Cardinality(Paid(left)) \in Nat
  <2>1. /\ Paid(os) \subseteq OutcomeReports
        /\ Paid(left) \subseteq OutcomeReports
        /\ paid \subseteq OutcomeReports
    BY <1>4 DEF Paid
  <2> QED BY <2>1, FeesType
<1>9. Cardinality(Paid(left)) = Cardinality(Paid(os)) - Cardinality(paid)
  BY <1>4, <1>8, FS_Difference, Zenon
<1>10. VotingOutcomeFee \in Nat
  BY GlobalDisputesAssumption
<1>11. Rest(gone) = Fees(left) /\ Fees(left) \in Nat
  <2>1. \A f, x, y \in Nat : f * (x - y) = f * x - f * y
    OBVIOUS
  <2>2. Fees(left) = Fees(os) - VotingOutcomeFee * Cardinality(paid)
    BY <1>8, <1>9, <1>10, <2>1 DEF Fees
  <2>3. Fees(left) \in Nat
    BY <1>8, <1>10 DEF Fees
  <2> QED BY <1>7, <2>2, <2>3
<1>12. Backed(info, left, Rest(gone))
  BY <1>2, <1>11 DEF Backed
<1> QED BY <1>3, <1>5, <1>6, <1>12, PotStep, Zenon

LEMMA Shared ==
  ASSUME NEW p \in Nat, NEW n \in Nat \ {0}
  PROVE  p \div n \in Nat /\ p - (p \div n) * n \in Nat
OBVIOUS

LEMMA PotOfReward ==
  ASSUME DisputeInv, PotInv, NEW m \in MarketIds, reward_outcome_owner(m)
  PROVE  PotInv'
<1> DEFINE info == GlobalDisputesInfo[m]
           n == Len(Owners(info.outcome_info.possession))
           p == Reaped(pot[m] - (pot[m] \div n) * n)
<1>1. /\ info # None /\ info.status.kind = "Finished"
      /\ UNCHANGED <<GlobalDisputesInfo, Outcomes>>
      /\ pot' = [pot EXCEPT ![m] = p]
  BY DEF reward_outcome_owner, MayReward, HasStatus, dispute_vars
<1>2. /\ GlobalDisputesInfo' = [GlobalDisputesInfo EXCEPT ![m] = info]
      /\ Outcomes' = [Outcomes EXCEPT ![m] = Outcomes[m]]
  BY <1>1, SoundDispute
<1>3. pot[m] \in Nat
  BY PotOf DEF Backed
<1>4. n \in Nat \ {0}
  <2>1. OwnersInRange(info.outcome_info.possession) /\ MaxOwners \in Nat
    BY <1>1, SoundDispute, GlobalDisputesAssumption DEF Sound
  <2> QED BY <2>1 DEF OwnersInRange
<1> HIDE DEF n, info
<1>5. p \in Nat
  BY <1>3, <1>4, Shared DEF Reaped
<1> HIDE DEF p
<1>6. Backed(info, Outcomes[m], p)
  BY <1>1, <1>5 DEF Backed
<1> QED BY <1>1, <1>2, <1>6, PotStep, Zenon

LEMMA PotNext ==
  ASSUME DisputeInv, PotInv, [Next]_vars
  PROVE  PotInv'
<1>1. ASSUME UNCHANGED <<GlobalDisputesInfo, Outcomes, pot>> PROVE PotInv'
  BY <1>1 DEF PotInv
<1>2. CASE NewBlock
  BY <1>1, <1>2 DEF NewBlock, dispute_vars
<1>3. ASSUME NEW m \in MarketIds, DisputeCall(m) PROVE PotInv'
  <2>1. CASE \E items \in InitialItems : start_global_dispute(m, items)
    BY <2>1, PotOfStart
  <2>2. CASE Resolves(m) \/ destroy_global_dispute(m)
    BY <2>2, PotOfStatus
  <2>3. CASE \E a \in AccountIds, o \in OutcomeReports :
               add_vote_outcome(m, a, o)
    BY <2>3, PotOfAdd
  <2>4. CASE \E a \in AccountIds, o \in OutcomeReports,
                amount \in VoteAmounts : vote_on_outcome(m, a, o, amount)
    BY <2>4, PotOfVote
  <2>5. CASE purge_outcomes(m)
    BY <2>5, PotOfPurge
  <2>6. CASE refund_vote_fees(m)
    BY <2>6, PotOfRefund
  <2>7. CASE reward_outcome_owner(m)
    BY <2>7, PotOfReward
  <2> QED BY <1>3, <2>1, <2>2, <2>3, <2>4, <2>5, <2>6, <2>7 DEF DisputeCall
<1>4. ASSUME NEW a \in AccountIds,
             \/ unlock_vote_balance(a)
             \/ \E amount \in Transfers : transfer(a, amount)
             \/ pay_fee(a)
             \/ \E amount \in Slashes : slash(a, amount)
             \/ cross(a)
      PROVE  PotInv'
  BY <1>1, <1>4 DEF unlock_vote_balance, transfer, pay_fee, slash, cross, Take,
                    dispute_vars
<1>5. CASE UNCHANGED vars
  BY <1>1, <1>5 DEF vars, dispute_vars
<1> QED BY <1>2, <1>3, <1>4, <1>5 DEF Next

LEMMA PotsSound == Spec => []PotInv
<1>1. Init => PotInv
  BY DEF Init, PotInv, Backed
<1>2. DisputeInv /\ PotInv /\ [Next]_vars => PotInv'
  BY PotNext
<1> QED BY <1>1, <1>2, DisputesSound, PTL DEF Spec

(* The reward account of a dispute that runs or is refunded holds exactly   *)
(* the fees that refund_vote_fees has to pay back.                          *)
THEOREM RefundsAreCovered == Spec => []PotCoversRefunds
<1>1. PotInv => PotCoversRefunds
  <2> SUFFICES ASSUME PotInv, NEW m \in MarketIds,
                      HasStatus(m, "Active") \/ HasStatus(m, "Destroyed")
               PROVE  pot[m] = VotingOutcomeFee
                                 * Cardinality(PaidFor(m, Added(m)))
    BY DEF PotCoversRefunds
  <2>1. pot[m] = Fees(Outcomes[m])
    BY PotOf DEF Backed, HasStatus
  <2>2. PaidFor(m, Added(m)) = Paid(Outcomes[m])
    BY DEF PaidFor, Added, Paid
  <2> QED BY <2>1, <2>2 DEF Fees
<1> QED BY <1>1, PotsSound, PTL

-----------------------------------------------------------------------------
(* Balances *)

BalanceInv ==
  /\ free \in [AccountIds -> Nat]
  /\ Crossings \subseteq AccountIds
  /\ taken \in [AccountIds -> Nat]
  /\ \A a \in AccountIds : locked[a] <= free[a] + taken[a]

(* No account loses tokens and no lock grows.                               *)
LEMMA BalanceGrows ==
  ASSUME LockInv, LockInv', BalanceInv,
         free' \in [AccountIds -> Nat], UNCHANGED <<Crossings, taken>>,
         \A a \in AccountIds : locked'[a] <= locked[a] /\ free[a] <= free'[a]
  PROVE  BalanceInv'
<1>1. ASSUME NEW a \in AccountIds PROVE locked'[a] <= free'[a] + taken'[a]
  <2>1. locked[a] \in Nat /\ locked'[a] \in Nat
    BY DEF LockInv
  <2>2. /\ free[a] \in Nat /\ free'[a] \in Nat /\ taken[a] \in Nat
        /\ locked[a] <= free[a] + taken[a]
    BY DEF BalanceInv
  <2> QED BY <2>1, <2>2
<1> QED BY <1>1 DEF BalanceInv

LEMMA BalanceOfPayment ==
  ASSUME LockInv, BalanceInv, NEW a \in AccountIds, NEW amount \in Nat,
         MayTransfer(a, amount),
         free' = [free EXCEPT ![a] = @ - amount],
         UNCHANGED <<Crossings, taken>>, locked' = locked
  PROVE  BalanceInv'
<1>1. /\ locked \in [AccountIds -> Nat] /\ free \in [AccountIds -> Nat]
      /\ taken \in [AccountIds -> Nat]
  BY DEF LockInv, BalanceInv
<1>2. free[a] - amount \in Nat /\ locked[a] <= free[a] - amount
  BY <1>1 DEF MayTransfer
<1>3. \A b \in AccountIds : locked[b] <= free'[b] + taken[b]
  BY <1>1, <1>2 DEF BalanceInv
<1> QED BY <1>1, <1>2, <1>3 DEF BalanceInv

(* What is taken despite the lock is accounted for.                         *)
LEMMA BalanceOfTake ==
  ASSUME LockInv, BalanceInv, NEW a \in AccountIds, NEW amount \in Nat,
         Take(a, amount), Crossings' \subseteq AccountIds
  PROVE  BalanceInv'
<1>1. /\ amount <= free[a] /\ locked' = locked
      /\ free' = [free EXCEPT ![a] = @ - amount]
      /\ taken' = [taken EXCEPT ![a] = @ + amount]
  BY DEF Take
<1>2. /\ locked \in [AccountIds -> Nat] /\ free \in [AccountIds -> Nat]
      /\ taken \in [AccountIds -> Nat]
  BY DEF LockInv, BalanceInv
<1>3. free' \in [AccountIds -> Nat] /\ taken' \in [AccountIds -> Nat]
  BY <1>1, <1>2
<1>4. \A b \in AccountIds : locked[b] <= free'[b] + taken'[b]
  BY <1>1, <1>2 DEF BalanceInv
<1> QED BY <1>1, <1>3, <1>4 DEF BalanceInv

LEMMA BalanceOfVote ==
  ASSUME LockInv, BalanceInv, NEW m \in MarketIds, NEW voter \in AccountIds,
         NEW o \in OutcomeReports, NEW amount \in VoteAmounts,
         vote_on_outcome(m, voter, o, amount)
  PROVE  BalanceInv'
<1> DEFINE sum == prev_amount_acc(voter, m) + amount
<1>1. /\ sum <= free[voter] /\ free' = free /\ UNCHANGED <<Crossings, taken>>
      /\ locked' = [locked EXCEPT ![voter] = extend_lock(@, sum)]
  BY DEF vote_on_outcome, CoversVote
<1>2. sum \in Nat
  <2>1. amount \in Nat /\ Locks[voter][m] \in Nat \cup {None}
    BY GlobalDisputesAssumption DEF LockInv, VoteLocks
  <2> QED BY <2>1 DEF prev_amount_acc
<1> HIDE DEF sum
<1>3. \A a \in AccountIds : locked'[a] <= free[a] + taken[a]
  BY <1>1, <1>2 DEF LockInv, BalanceInv, extend_lock
<1> QED BY <1>1, <1>3 DEF BalanceInv

LEMMA BalanceOfUnlock ==
  ASSUME LockInv, BalanceInv, NEW voter \in AccountIds,
         unlock_vote_balance(voter)
  PROVE  BalanceInv'
<1> DEFINE keep == Retained(voter)
           amounts == {0} \cup {Locks[voter][m] : m \in keep}
<1>1. PICK lock \in amounts : locked' = [locked EXCEPT ![voter] = lock]
  BY Zenon DEF unlock_vote_balance
<1>2. free' = free /\ UNCHANGED <<Crossings, taken>>
  BY DEF unlock_vote_balance
<1>3. Largest(Locks[voter], locked[voter])
  BY DEF LockInv
<1>4. \A m \in keep : m \in MarketIds /\ Locks[voter][m] # None
  BY DEF Retained
<1>5. lock <= locked[voter]
  BY <1>1, <1>3, <1>4 DEF Largest
<1> HIDE DEF amounts
<1>6. LockInv'
  BY LockOfUnlock
<1>7. \A a \in AccountIds : locked'[a] <= locked[a] /\ free[a] <= free'[a]
  BY <1>1, <1>2, <1>5 DEF LockInv, BalanceInv
<1> QED BY <1>2, <1>6, <1>7, BalanceGrows DEF BalanceInv

(* A payment to every account.                                              *)
LEMMA BalanceOfIncome ==
  ASSUME LockInv, BalanceInv, NEW income,
         \A a \in AccountIds : income[a] \in Nat,
         free' = [a \in AccountIds |-> free[a] + income[a]],
         UNCHANGED <<Locks, locked, Crossings, taken>>
  PROVE  BalanceInv'
<1>1. \A a \in AccountIds : free[a] \in Nat /\ locked[a] \in Nat
  BY DEF BalanceInv, LockInv
<1>2. free' \in [AccountIds -> Nat]
  BY <1>1
<1>3. \A a \in AccountIds : locked'[a] <= locked[a] /\ free[a] <= free'[a]
  BY <1>1
<1>4. LockInv'
  BY DEF LockInv
<1> QED BY <1>2, <1>3, <1>4, BalanceGrows

LEMMA BalanceOfRefund ==
  ASSUME LockInv, BalanceInv, NEW m \in MarketIds, refund_vote_fees(m)
  PROVE  BalanceInv'
<1> DEFINE PaidBy(gone, a) ==
             {o \in PaidFor(m, gone) : Outcomes[m][o].possession.owner = a}
<1>1. PICK gone \in Drained(Added(m)) :
        free' = [a \in AccountIds |->
                   free[a] + VotingOutcomeFee * Cardinality(PaidBy(gone, a))]
  BY Zenon DEF refund_vote_fees
<1>2. UNCHANGED <<Locks, locked, Crossings, taken>>
  BY DEF refund_vote_fees
<1>3. gone \subseteq OutcomeReports
  BY <1>1 DEF Drained, Added
<1> DEFINE income == [a \in AccountIds |->
                        VotingOutcomeFee * Cardinality(PaidBy(gone, a))]
<1>4. ASSUME NEW a \in AccountIds PROVE income[a] \in Nat
  <2>1. PaidBy(gone, a) \subseteq OutcomeReports
    BY <1>3 DEF PaidFor
  <2> HIDE DEF PaidBy
  <2>2. VotingOutcomeFee * Cardinality(PaidBy(gone, a)) \in Nat
    BY <2>1, FeesType
  <2> QED BY <2>2
<1>5. free' = [a \in AccountIds |-> free[a] + income[a]]
  <2> HIDE DEF PaidBy
  <2> QED BY <1>1
<1> HIDE DEF income
<1> QED BY <1>2, <1>4, <1>5, BalanceOfIncome

LEMMA BalanceOfReward ==
  ASSUME DisputeInv, PotInv, LockInv, BalanceInv, NEW m \in MarketIds,
         reward_outcome_owner(m)
  PROVE  BalanceInv'
<1> DEFINE info == GlobalDisputesInfo[m]
           owners == Owners(info.outcome_info.possession)
           each == pot[m] \div Len(owners)
           Shares(a) == Cardinality({i \in DOMAIN owners : owners[i] = a})
           income == [a \in AccountIds |-> each * Shares(a)]
<1>1. /\ info # None /\ UNCHANGED <<Locks, locked, Crossings, taken>>
      /\ free' = [a \in AccountIds |-> free[a] + each * Shares(a)]
  BY DEF reward_outcome_owner, MayReward, HasStatus
<1>2. free' = [a \in AccountIds |-> free[a] + income[a]]
  <2> HIDE DEF each, Shares
  <2> QED BY <1>1
<1>3. info.outcome_info.possession \in Possession
  <2>1. info \in GlobalDisputeInfo
    BY <1>1 DEF DisputeInv
  <2> HIDE DEF info
  <2> QED BY <2>1 DEF GlobalDisputeInfo, OutcomeInfo
<1>4. owners \in Seq(AccountIds)
  BY <1>3 DEF Possession, Owners
<1>5. Len(owners) \in Nat \ {0}
  <2>1. OwnersInRange(info.outcome_info.possession) /\ MaxOwners \in Nat
    BY <1>1, SoundDispute, GlobalDisputesAssumption DEF Sound
  <2> QED BY <2>1 DEF OwnersInRange
<1>6. pot[m] \in Nat
  BY DEF PotInv
<1> HIDE DEF owners
<1>7. each \in Nat
  BY <1>5, <1>6, Shared
<1>8. ASSUME NEW a \in AccountIds PROVE Shares(a) \in Nat
  <2> DEFINE S == {i \in DOMAIN owners : owners[i] = a}
  <2>1. S \subseteq 1 .. Len(owners)
    BY <1>4
  <2>2. IsFiniteSet(1 .. Len(owners))
    BY <1>5, FS_Interval
  <2> HIDE DEF S
  <2>3. IsFiniteSet(S)
    BY <2>1, <2>2, FS_Subset, Zenon
  <2>4. Cardinality(S) \in Nat
    BY <2>3, FS_CardinalityType
  <2> QED BY <2>4 DEF S
<1> HIDE DEF each, Shares
<1>9. \A a \in AccountIds : income[a] \in Nat
  BY <1>7, <1>8
<1> HIDE DEF income
<1> QED BY <1>1, <1>2, <1>9, BalanceOfIncome

LEMMA BalanceNext ==
  ASSUME DisputeInv, PotInv, LockInv, BalanceInv, [Next]_vars
  PROVE  BalanceInv'
<1>1. ASSUME UNCHANGED <<free, Crossings, taken, locked>> PROVE BalanceInv'
  BY <1>1 DEF BalanceInv
<1>2. CASE NewBlock
  BY <1>1, <1>2 DEF NewBlock
<1>3. ASSUME NEW m \in MarketIds, DisputeCall(m) PROVE BalanceInv'
  <2>1. CASE \E a \in AccountIds, o \in OutcomeReports,
                amount \in VoteAmounts : vote_on_outcome(m, a, o, amount)
    BY <2>1, BalanceOfVote
  <2>2. CASE \E a \in AccountIds, o \in OutcomeReports :
               add_vote_outcome(m, a, o)
    <3>1. PICK a \in AccountIds, o \in OutcomeReports :
            add_vote_outcome(m, a, o)
      BY <2>2
    <3>2. /\ MayTransfer(a, VotingOutcomeFee)
          /\ locked' = locked /\ UNCHANGED <<Crossings, taken>>
          /\ free' = [free EXCEPT ![a] = @ - VotingOutcomeFee]
      BY <3>1 DEF add_vote_outcome
    <3>3. VotingOutcomeFee \in Nat
      BY GlobalDisputesAssumption
    <3> QED BY <3>2, <3>3, BalanceOfPayment, Zenon
  <2>3. CASE \/ \E items \in InitialItems : start_global_dispute(m, items)
             \/ Resolves(m)
             \/ destroy_global_dispute(m)
             \/ purge_outcomes(m)
    BY <1>1, <2>3 DEF start_global_dispute, Resolves, determine_voting_winner,
                      destroy_global_dispute, purge_outcomes
  <2>4. CASE refund_vote_fees(m)
    BY <2>4, BalanceOfRefund
  <2>5. CASE reward_outcome_owner(m)
    BY <2>5, BalanceOfReward
  <2> QED BY <1>3, <2>1, <2>2, <2>3, <2>4, <2>5 DEF DisputeCall
<1>4. ASSUME NEW a \in AccountIds, unlock_vote_balance(a) PROVE BalanceInv'
  BY <1>4, BalanceOfUnlock
<1>5. ASSUME NEW a \in AccountIds, NEW amount \in Transfers,
             transfer(a, amount)
      PROVE  BalanceInv'
  <2>1. amount \in Nat
    BY GlobalDisputesAssumption
  <2> QED BY <1>5, <2>1, BalanceOfPayment DEF transfer
<1>6. ASSUME NEW a \in AccountIds,
             \/ pay_fee(a)
             \/ \E amount \in Slashes : slash(a, amount)
             \/ cross(a)
      PROVE  BalanceInv'
  <2>1. PICK amount \in Nat : Take(a, amount)
    BY <1>6, GlobalDisputesAssumption DEF pay_fee, slash, cross
  <2>2. Crossings' \subseteq AccountIds
    BY <1>6 DEF pay_fee, slash, cross, BalanceInv
  <2> QED BY <2>1, <2>2, BalanceOfTake
<1>7. CASE UNCHANGED vars
  BY <1>1, <1>7 DEF vars
<1> QED BY <1>2, <1>3, <1>4, <1>5, <1>6, <1>7 DEF Next

LEMMA BalancesSound == Spec => []BalanceInv
<1>1. Init => BalanceInv
  BY GlobalDisputesAssumption DEF Init, BalanceInv
<1>2. DisputeInv /\ PotInv /\ LockInv /\ BalanceInv /\ [Next]_vars
        => BalanceInv'
  BY BalanceNext
<1> QED BY <1>1, <1>2, DisputesSound, PotsSound, LocksSound, PTL DEF Spec

(* A lock exceeds the free balance of its account at most by what fees,     *)
(* slashes and a crossing took from it: calls of the account itself, and    *)
(* the ends of disputes, never leave a vote uncovered.                      *)
THEOREM LocksAreCovered == Spec => []LocksCovered
<1>1. BalanceInv => LocksCovered
  BY DEF BalanceInv, LocksCovered
<1> QED BY <1>1, BalancesSound, PTL

(* The storage is well typed; no outcome has more than MaxOwners owners, so *)
(* sharing the reward never divides by zero.                                *)
THEOREM DisputeTypes == Spec => []TypeOK
<1>1. DisputeInv /\ LockInv /\ PotInv /\ BalanceInv => TypeOK
  <2> SUFFICES ASSUME DisputeInv, LockInv, PotInv, BalanceInv PROVE TypeOK
    OBVIOUS
  <2>1. /\ GlobalDisputesInfo \in [MarketIds -> GlobalDisputeInfo \cup {None}]
        /\ Outcomes \in
             [MarketIds -> [OutcomeReports -> OutcomeInfo \cup {None}]]
        /\ now \in Nat
        /\ decided \in [MarketIds ->
             [outcome: OutcomeReports, possession: Possession] \cup {None}]
    BY DEF DisputeInv, OutcomesType, Decision
  <2>2. /\ Locks \in [AccountIds -> [MarketIds -> Nat \cup {None}]]
        /\ locked \in [AccountIds -> Nat]
        /\ pot \in [MarketIds -> Nat] /\ free \in [AccountIds -> Nat]
        /\ taken \in [AccountIds -> Nat] /\ Crossings \subseteq AccountIds
    BY DEF LockInv, VoteLocks, PotInv, BalanceInv
  <2>3. \A m \in MarketIds : \A o \in Added(m) :
          Len(Owners(Outcomes[m][o].possession)) \in 1 .. MaxOwners
    BY DEF DisputeInv, Sound, OwnersInRange, Added
  <2> QED BY <2>1, <2>2, <2>3 DEF TypeOK
<1> QED BY <1>1, DisputesSound, LocksSound, PotsSound, BalancesSound, PTL
=============================================================================
