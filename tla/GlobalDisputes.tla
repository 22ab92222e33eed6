--------------------------- MODULE GlobalDisputes ---------------------------
(***************************************************************************)
(* The pallet global-disputes: outcomes are put to the vote, holders of    *)
(* the native token vote by locking it, and the outcome in the lead when   *)
(* the market is resolved decides it. The fees paid for added outcomes go  *)
(* to the owners of the winning outcome, or back if the vote is destroyed. *)
(***************************************************************************)
EXTENDS Integers, Sequences, FiniteSets

CONSTANTS
  MarketIds, OutcomeReports, AccountIds,
  None,
  InitialItems,          \* the lists prediction-markets may start a vote with
  VoteAmounts,           \* the amounts voters submit
  Transfers,             \* the amounts accounts transfer for other reasons
  AddOutcomePeriod, GdVotingPeriod,
  VotingOutcomeFee, MinOutcomeVoteAmount, ExistentialDeposit,
  MaxGlobalDisputeVotes, MaxOwners, RemoveKeysLimit,
  InitialBalance,
  Slashes,               \* the amounts slashed by the court
  BurnAmount,            \* the price of a styx crossing
  MaxTaken,              \* the most fees and the court take from an account
  Horizon                \* the last block of a run

VARIABLES
  GlobalDisputesInfo,    \* the dispute of each market, or None
  Outcomes,              \* what is known of each outcome of each market
  Locks,                 \* what each voter has voted with, per market
  locked, free,          \* each account's lock and free balance
  Crossings,             \* the accounts that have crossed the styx
  taken,                 \* history: what was taken from each account whatever
                         \* its lock: transaction fees, slashes, burns
  pot,                   \* the reward account of each market
  now,
  decided                \* history: the winner and its owners when determined

dispute_vars == <<GlobalDisputesInfo, Outcomes, decided>>
vars == <<dispute_vars, Locks, locked, free, Crossings, taken, pot, now>>

InitialItem == [outcome: OutcomeReports, owner: AccountIds, amount: Nat]

\* The shares of a fee exceed the existential deposit, as in the runtimes, so
\* the currency refuses no payment from a reward account.
ASSUME GlobalDisputesAssumption ==
  /\ IsFiniteSet(OutcomeReports)
  /\ InitialItems \subseteq Seq(InitialItem)
  /\ VoteAmounts \subseteq Nat /\ Transfers \subseteq Nat
  /\ {AddOutcomePeriod, GdVotingPeriod} \subseteq Nat
  /\ Slashes \subseteq Nat
  /\ {InitialBalance, BurnAmount, MaxTaken, Horizon} \subseteq Nat
  /\ {VotingOutcomeFee, MinOutcomeVoteAmount, ExistentialDeposit} \subseteq Nat
  /\ {MaxGlobalDisputeVotes, MaxOwners, RemoveKeysLimit} \subseteq Nat \ {0}
  /\ MaxOwners * ExistentialDeposit <= VotingOutcomeFee

-----------------------------------------------------------------------------
(* Storage *)

Possession ==
  [kind: {"Paid"}, owner: AccountIds, fee: Nat]
    \cup [kind: {"Shared"}, owners: Seq(AccountIds)]

OutcomeInfo == [outcome_sum: Nat, possession: Possession]

GdStatus ==
  [kind: {"Active"}, add_outcome_end: Nat, vote_end: Nat]
    \cup [kind: {"Finished", "Destroyed"}]

GlobalDisputeInfo ==
  [winner_outcome: OutcomeReports, outcome_info: OutcomeInfo, status: GdStatus]

ASSUME NoneAssumption ==
  None \notin Nat \cup OutcomeInfo \cup GlobalDisputeInfo

Active(add_outcome_end, vote_end) ==
  [kind |-> "Active", add_outcome_end |-> add_outcome_end,
   vote_end |-> vote_end]

NoOutcomes == [o \in OutcomeReports |-> None]

\* The outcomes of market m that are stored.
Added(m) == {o \in OutcomeReports : Outcomes[m][o] # None}

HasStatus(m, kind) ==
  GlobalDisputesInfo[m] # None /\ GlobalDisputesInfo[m].status.kind = kind

\* GlobalDisputeInfo::new: the periods are set when the dispute starts.
new(outcome, outcome_info) ==
  [winner_outcome |-> outcome, outcome_info |-> outcome_info,
   status |-> Active(0, 0)]

\* Mutant: the outcome touched last is the winner.
update_winner_Latest(info, outcome, outcome_info) ==
  IF info = None THEN new(outcome, outcome_info)
  ELSE [info EXCEPT !.winner_outcome = outcome,
                    !.outcome_info.outcome_sum = outcome_info.outcome_sum]

\* The cached winner after the sum of an outcome has grown. The cache keeps
\* the owners it was created with.
update_winner(info, outcome, outcome_info) ==
  IF info = None THEN new(outcome, outcome_info)
  ELSE IF outcome_info.outcome_sum >= info.outcome_info.outcome_sum
  THEN [info EXCEPT !.winner_outcome = outcome,
                    !.outcome_info.outcome_sum = outcome_info.outcome_sum]
  ELSE info

-----------------------------------------------------------------------------
(* The interface used by prediction-markets *)

\* An outcome with one more initial item.
ItemAdded(old, item) ==
  [outcome_sum |-> item.amount + (IF old = None THEN 0 ELSE old.outcome_sum),
   possession |->
     [kind |-> "Shared",
      owners |-> IF old = None THEN <<item.owner>>
                 ELSE Append(old.possession.owners, item.owner)]]

\* Mutant: any number of owners.
OwnersFit_Unbounded(owners) == TRUE

OwnersFit(owners) == Len(owners) <= MaxOwners

\* One round of the loop over the initial items. The market has no outcomes
\* before, as none are stored without a dispute.
PushItem(s, item) ==
  LET outcome_info == ItemAdded(s.outcomes[item.outcome], item)
  IN [info |-> update_winner(s.info, item.outcome, outcome_info),
      outcomes |-> [s.outcomes EXCEPT ![item.outcome] = outcome_info],
      ok |-> s.ok /\ OwnersFit(outcome_info.possession.owners)]

NoItems == [info |-> None, outcomes |-> NoOutcomes, ok |-> TRUE]

\* The rounds of the loop over the initial items.
Pushed(items) ==
  LET run[i \in 0 .. Len(items)] ==
        IF i = 0 THEN NoItems ELSE PushItem(run[i - 1], items[i])
  IN run

start_global_dispute(m, items) ==
  LET end == Pushed(items)[Len(items)]
      add_outcome_end == now + AddOutcomePeriod
  IN /\ GlobalDisputesInfo[m] = None
     /\ end.ok /\ end.info # None
     /\ GlobalDisputesInfo' =
          [GlobalDisputesInfo EXCEPT ![m] =
             [end.info EXCEPT !.status =
                Active(add_outcome_end, add_outcome_end + GdVotingPeriod)]]
     /\ Outcomes' = [Outcomes EXCEPT ![m] = end.outcomes]
     /\ UNCHANGED <<Locks, locked, free, Crossings, taken, pot, now, decided>>

determine_voting_winner(m) ==
  LET info == GlobalDisputesInfo[m]
  IN /\ info # None
     /\ GlobalDisputesInfo' =
          [GlobalDisputesInfo EXCEPT ![m].status = [kind |-> "Finished"]]
     /\ decided' =
          [decided EXCEPT ![m] =
             [outcome |-> info.winner_outcome,
              possession |-> Outcomes[m][info.winner_outcome].possession]]
     /\ UNCHANGED <<Outcomes, Locks, locked, free, Crossings, taken, pot, now>>

destroy_global_dispute(m) ==
  /\ HasStatus(m, "Active")
  /\ GlobalDisputesInfo' =
       [GlobalDisputesInfo EXCEPT ![m].status = [kind |-> "Destroyed"]]
  /\ UNCHANGED <<Outcomes, decided, Locks, locked, free, Crossings, taken, pot,
                 now>>

-----------------------------------------------------------------------------
(* The calls of outcome owners and voters *)

\* The lock is on transfers, not on transaction fees or slashes.
MayTransfer(who, amount) == free[who] - amount >= locked[who]

\* Mutant: an outcome may be added again.
MayAddOutcome_Again(m, outcome) ==
  /\ HasStatus(m, "Active")
  /\ now <= GlobalDisputesInfo[m].status.add_outcome_end

MayAddOutcome(m, outcome) ==
  /\ HasStatus(m, "Active")
  /\ now <= GlobalDisputesInfo[m].status.add_outcome_end
  /\ Outcomes[m][outcome] = None

\* The fee counts as a vote and the account has to be kept alive.
add_vote_outcome(m, owner, outcome) ==
  LET outcome_info ==
        [outcome_sum |-> VotingOutcomeFee,
         possession |->
           [kind |-> "Paid", owner |-> owner, fee |-> VotingOutcomeFee]]
  IN /\ MayAddOutcome(m, outcome)
     /\ MayTransfer(owner, VotingOutcomeFee)
     /\ free[owner] - VotingOutcomeFee >= ExistentialDeposit
     /\ free' = [free EXCEPT ![owner] = @ - VotingOutcomeFee]
     /\ pot' = [pot EXCEPT ![m] = @ + VotingOutcomeFee]
     /\ GlobalDisputesInfo' =
          [GlobalDisputesInfo EXCEPT ![m] =
             update_winner(@, outcome, outcome_info)]
     /\ Outcomes' = [Outcomes EXCEPT ![m][outcome] = outcome_info]
     /\ UNCHANGED <<Locks, locked, Crossings, taken, now, decided>>

InVotingPeriod(m) ==
  /\ HasStatus(m, "Active")
  /\ GlobalDisputesInfo[m].status.add_outcome_end < now
  /\ now <= GlobalDisputesInfo[m].status.vote_end

\* Mutant: each vote on a market replaces the one before.
prev_amount_acc_Replaced(voter, m) == 0

\* What the voter has voted with on m before.
prev_amount_acc(voter, m) ==
  IF Locks[voter][m] = None THEN 0 ELSE Locks[voter][m]

\* Mutant: earlier votes on the same market are forgotten.
CoversVote_Forgets(voter, m, amount) == amount <= free[voter]

CoversVote(voter, m, amount) ==
  prev_amount_acc(voter, m) + amount <= free[voter]

\* The currency's extend_lock.
extend_lock(lock, amount) == IF lock >= amount THEN lock ELSE amount

vote_on_outcome(m, voter, outcome, amount) ==
  LET old == Outcomes[m][outcome]
      outcome_info == [old EXCEPT !.outcome_sum = @ + amount]
      lock_amount == prev_amount_acc(voter, m) + amount
      lock_info == {k \in MarketIds : Locks[voter][k] # None}
  IN /\ amount >= MinOutcomeVoteAmount
     /\ InVotingPeriod(m)
     /\ old # None
     /\ CoversVote(voter, m, amount)
     /\ m \in lock_info \/ Cardinality(lock_info) < MaxGlobalDisputeVotes
     /\ GlobalDisputesInfo' =
          [GlobalDisputesInfo EXCEPT ![m] =
             update_winner(@, outcome, outcome_info)]
     /\ Outcomes' = [Outcomes EXCEPT ![m][outcome] = outcome_info]
     /\ Locks' = [Locks EXCEPT ![voter][m] = lock_amount]
     /\ locked' = [locked EXCEPT ![voter] = extend_lock(@, lock_amount)]
     /\ UNCHANGED <<free, Crossings, taken, pot, now, decided>>

\* Mutant: votes on running disputes are let go, too.
Retained_None(voter) == {}

\* The entries of the voter that unlocking keeps.
Retained(voter) ==
  {m \in MarketIds : Locks[voter][m] # None /\ HasStatus(m, "Active")}

unlock_vote_balance(voter) ==
  LET amounts == {0} \cup {Locks[voter][m] : m \in Retained(voter)}
  IN /\ Locks' =
          [Locks EXCEPT ![voter] =
             [m \in MarketIds |->
                IF m \in Retained(voter) THEN Locks[voter][m] ELSE None]]
     /\ \E lock_needed \in amounts :
          /\ \A amount \in amounts : amount <= lock_needed
          /\ locked' = [locked EXCEPT ![voter] = lock_needed]
     /\ UNCHANGED <<dispute_vars, free, Crossings, taken, pot, now>>

-----------------------------------------------------------------------------
(* After the vote *)

\* What draining at most RemoveKeysLimit of the given keys may remove; they
\* come in the order of their hashes.
Drained(keys) ==
  {gone \in SUBSET keys :
     IF Cardinality(keys) <= RemoveKeysLimit THEN gone = keys
     ELSE Cardinality(gone) = RemoveKeysLimit}

\* Mutant: the owners of the winner are not saved.
WinnerSaved_Skipped(m) == GlobalDisputesInfo[m]

\* The winner's owners are kept before its outcome is removed.
WinnerSaved(m) ==
  LET info == GlobalDisputesInfo[m]
      outcome_info == Outcomes[m][info.winner_outcome]
  IN IF outcome_info = None THEN info
     ELSE [info EXCEPT !.outcome_info = outcome_info]

purge_outcomes(m) ==
  LET winner == GlobalDisputesInfo[m].winner_outcome
  IN /\ HasStatus(m, "Finished")
     /\ GlobalDisputesInfo' =
          [GlobalDisputesInfo EXCEPT ![m] = WinnerSaved(m)]
     /\ \E gone \in Drained(Added(m) \ {winner}) :
          Outcomes' = [Outcomes EXCEPT ![m] =
                         [o \in OutcomeReports |->
                            IF o \in gone \cup {winner} THEN None ELSE @[o]]]
     /\ UNCHANGED <<Locks, locked, free, Crossings, taken, pot, now, decided>>

\* The outcomes among the given ones that were added for a fee.
PaidFor(m, outcomes) ==
  {o \in outcomes : Outcomes[m][o].possession.kind = "Paid"}

refund_vote_fees(m) ==
  /\ HasStatus(m, "Destroyed")
  /\ \E gone \in Drained(Added(m)) :
       LET paid == PaidFor(m, gone)
           PaidBy(a) == {o \in paid : Outcomes[m][o].possession.owner = a}
       IN /\ pot' = [pot EXCEPT
                       ![m] = @ - VotingOutcomeFee * Cardinality(paid)]
          /\ free' = [a \in AccountIds |->
                        free[a] + VotingOutcomeFee * Cardinality(PaidBy(a))]
          /\ Outcomes' = [Outcomes EXCEPT ![m] =
                            [o \in OutcomeReports |->
                               IF o \in gone THEN None ELSE @[o]]]
  /\ UNCHANGED <<GlobalDisputesInfo, Locks, locked, Crossings, taken, now,
                 decided>>

\* Everyone who is rewarded, once for each share.
Owners(possession) ==
  IF possession.kind = "Paid" THEN <<possession.owner>> ELSE possession.owners

MayReward(m) ==
  /\ Added(m) = {}
  /\ HasStatus(m, "Finished")
  /\ pot[m] # 0

\* An account with less than the existential deposit is removed.
Reaped(balance) == IF balance < ExistentialDeposit THEN 0 ELSE balance

\* The whole pot for a paid outcome, equal shares rounded down otherwise.
reward_outcome_owner(m) ==
  LET owners == Owners(GlobalDisputesInfo[m].outcome_info.possession)
      reward_per_each == pot[m] \div Len(owners)
      Shares(a) == Cardinality({i \in DOMAIN owners : owners[i] = a})
  IN /\ MayReward(m)
     /\ pot' = [pot EXCEPT ![m] =
                  Reaped(@ - reward_per_each * Len(owners))]
     /\ free' = [a \in AccountIds |-> free[a] + reward_per_each * Shares(a)]
     /\ UNCHANGED <<dispute_vars, Locks, locked, Crossings, taken, now>>

-----------------------------------------------------------------------------
(* The chain *)

\* The native token moves for other reasons, as far as the lock permits.
transfer(who, amount) ==
  /\ MayTransfer(who, amount)
  /\ free' = [free EXCEPT ![who] = @ - amount]
  /\ UNCHANGED <<dispute_vars, Locks, locked, Crossings, taken, pot, now>>

\* An amount leaves an account although the account may be locked for it.
Take(who, amount) ==
  /\ amount <= free[who]
  /\ free' = [free EXCEPT ![who] = @ - amount]
  /\ taken' = [taken EXCEPT ![who] = @ + amount]
  /\ UNCHANGED <<dispute_vars, Locks, locked, pot, now>>

\* The lock does not stop transaction fees.
pay_fee(who) ==
  /\ taken[who] + 1 <= MaxTaken
  /\ Take(who, 1)
  /\ UNCHANGED Crossings

\* The court slashes the stake of a juror or delegator, which may be the tokens
\* they vote with: locks overlap and Currency::slash heeds none of them.
slash(who, amount) ==
  /\ taken[who] + amount <= MaxTaken
  /\ Take(who, amount)
  /\ UNCHANGED Crossings

\* styx: an account has tokens burnt, once, by Currency::slash again.
cross(who) ==
  /\ who \notin Crossings
  /\ Take(who, BurnAmount)
  /\ Crossings' = Crossings \cup {who}

NewBlock ==
  /\ now < Horizon
  /\ now' = now + 1
  /\ UNCHANGED <<dispute_vars, Locks, locked, free, Crossings, taken, pot>>

Init ==
  /\ GlobalDisputesInfo = [m \in MarketIds |-> None]
  /\ Outcomes = [m \in MarketIds |-> NoOutcomes]
  /\ Locks = [a \in AccountIds |-> [m \in MarketIds |-> None]]
  /\ locked = [a \in AccountIds |-> 0]
  /\ free = [a \in AccountIds |-> InitialBalance]
  /\ Crossings = {}
  /\ taken = [a \in AccountIds |-> 0]
  /\ pot = [m \in MarketIds |-> 0]
  /\ now = 0
  /\ decided = [m \in MarketIds |-> None]

\* A market is resolved once, and not after its dispute was destroyed.
Resolves(m) == HasStatus(m, "Active") /\ determine_voting_winner(m)

DisputeCall(m) ==
  \/ \E items \in InitialItems : start_global_dispute(m, items)
  \/ Resolves(m)
  \/ destroy_global_dispute(m)
  \/ \E a \in AccountIds, o \in OutcomeReports :
       \/ add_vote_outcome(m, a, o)
       \/ \E amount \in VoteAmounts : vote_on_outcome(m, a, o, amount)
  \/ purge_outcomes(m)
  \/ refund_vote_fees(m)
  \/ reward_outcome_owner(m)

Next ==
  \/ NewBlock
  \/ \E m \in MarketIds : DisputeCall(m)
  \/ \E a \in AccountIds :
       \/ unlock_vote_balance(a)
       \/ \E amount \in Transfers : transfer(a, amount)
       \/ pay_fee(a)
       \/ \E amount \in Slashes : slash(a, amount)
       \/ cross(a)

Spec == Init /\ [][Next]_vars

-----------------------------------------------------------------------------
(* Properties *)

TypeOK ==
  /\ GlobalDisputesInfo \in [MarketIds -> GlobalDisputeInfo \cup {None}]
  /\ Outcomes \in
       [MarketIds -> [OutcomeReports -> OutcomeInfo \cup {None}]]
  /\ \A m \in MarketIds : \A o \in Added(m) :
       Len(Owners(Outcomes[m][o].possession)) \in 1 .. MaxOwners
  /\ Locks \in [AccountIds -> [MarketIds -> Nat \cup {None}]]
  /\ locked \in [AccountIds -> Nat]
  /\ free \in [AccountIds -> Nat]
  /\ Crossings \subseteq AccountIds
  /\ taken \in [AccountIds -> Nat]
  /\ pot \in [MarketIds -> Nat]
  /\ now \in Nat
  /\ decided \in [MarketIds ->
       [outcome: OutcomeReports, possession: Possession] \cup {None}]

\* The cached winner is an outcome with the largest sum, and its cached sum
\* is current, from the start of a dispute until its outcomes are removed:
\* caching one outcome suffices because sums only grow (vote_on_outcome).
WinnerLeads ==
  \A m \in MarketIds :
    LET info == GlobalDisputesInfo[m]
    IN /\ HasStatus(m, "Active") => Outcomes[m][info.winner_outcome] # None
       /\ info # None /\ Outcomes[m][info.winner_outcome] # None =>
            /\ info.outcome_info.outcome_sum
                 = Outcomes[m][info.winner_outcome].outcome_sum
            /\ \A o \in Added(m) :
                 Outcomes[m][o].outcome_sum <= info.outcome_info.outcome_sum

\* When the reward can be paid, the owners in GlobalDisputesInfo are those
\* that the outcome the market was resolved on had: purge_outcomes replaces
\* the owners that were cached when the dispute started, however many calls
\* the purge takes.
WinnersRewarded ==
  \A m \in MarketIds : MayReward(m) =>
    /\ GlobalDisputesInfo[m].winner_outcome = decided[m].outcome
    /\ GlobalDisputesInfo[m].outcome_info.possession = decided[m].possession

\* The lock of an account is the largest of its votes that it has not
\* unlocked, in whatever order it votes on disputes, disputes end and the
\* account unlocks (vote_on_outcome extends, unlock_vote_balance recomputes).
LockIsLargestVote ==
  \A a \in AccountIds :
    LET amounts == {0} \cup ({Locks[a][m] : m \in MarketIds} \ {None})
    IN locked[a] \in amounts /\ \A amount \in amounts : amount <= locked[a]

\* Votes are backed by tokens: a lock exceeds the free balance at most by what
\* fees, slashes of the court and a styx crossing took from the account, which
\* no lock stops. Of its own transfers, its payments for added outcomes and its
\* votes in several disputes none leaves a vote uncovered, whatever was taken
\* in between (the checks of vote_on_outcome and the lock that it extends).
LocksCovered == \A a \in AccountIds : locked[a] <= free[a] + taken[a]

\* While a dispute runs or is being refunded its reward account holds the fee
\* of each stored outcome that was added for a fee, so no refund can fail
\* (debug_assert in refund_vote_fees).
PotCoversRefunds ==
  \A m \in MarketIds : HasStatus(m, "Active") \/ HasStatus(m, "Destroyed") =>
    pot[m] = VotingOutcomeFee * Cardinality(PaidFor(m, Added(m)))

-----------------------------------------------------------------------------
(* The vote it implements *)

stage ==
  [m \in MarketIds |->
     IF GlobalDisputesInfo[m] = None THEN "Unopened"
     ELSE CASE GlobalDisputesInfo[m].status.kind = "Active" -> "Open"
            [] GlobalDisputesInfo[m].status.kind = "Finished" -> "Closed"
            [] OTHER -> "Cancelled"]

tally ==
  [m \in MarketIds |-> [o \in OutcomeReports |->
     IF stage[m] = "Open" /\ Outcomes[m][o] # None
     THEN Outcomes[m][o].outcome_sum ELSE None]]

stake ==
  [m \in MarketIds |-> [a \in AccountIds |->
     IF stage[m] = "Open" THEN prev_amount_acc(a, m) ELSE 0]]

result ==
  [m \in MarketIds |->
     IF stage[m] = "Closed" THEN GlobalDisputesInfo[m].winner_outcome
     ELSE None]

Vote == INSTANCE OutcomeVote
          WITH Votes <- MarketIds, Options <- OutcomeReports,
               Voters <- AccountIds

\* The pallet implements OutcomeVote: what counts for an outcome is what was
\* locked for it, no stake is unlocked while the dispute runs, and the market
\* is resolved on an outcome with the most locked tokens (README: "setting one
\* out of multiple outcomes with the most locked native tokens").
ImplementsOutcomeVote == Vote!Spec
=============================================================================
