# Verification of the Zeitgeist prediction markets

Zeitgeist is a Substrate parachain. Its pallets create prediction markets, trade
outcome shares, decide outcomes and pay the winners. This directory models in
TLA+ the part that everything else rests on, the lifecycle of a market, and the
token-weighted vote that settles failed court cases, the global dispute. TLC
checks both on small instances; TLAPS proves their types, the close schedule of
markets, and the winner, locks and refunds of global disputes for every value of
the constants.

## The system

| Part | State | What changes it |
|---|---|---|
| `zrml/prediction-markets` | caches of market ids by close block, close time frame, report block and dispute block; `LastTimeFrame`; edit requests | the dispatchables on markets, `on_initialize` |
| `zrml/market-commons` | the market map and its counter | calls of the other pallets |
| `primitives/src/market.rs` | the record of a market: status, period, deadlines, report, six bonds, early close | written by `prediction-markets` |
| `zrml/authorized` | the authority's report on a market | `authorize_market_outcome`, resolution |
| `zrml/simple-disputes` | the list of suggested outcomes of a market | `suggest_outcome`, resolution |
| `zrml/court` | court cases with rounds, appeals and draws; the juror pool; stakes; inflation | jurors' and delegators' calls, `appeal`, `on_initialize`, the `DisputeApi` calls |
| `zrml/global-disputes` | votes, outcomes, locks and the cached winner of a global dispute | voters' calls, start and end by `prediction-markets` |
| `zrml/parimutuel`, `zrml/orderbook`, `zrml/neo-swaps`, `zrml/swaps` | pots, orders, pools with their liquidity tree | traders' calls |
| `zrml/styx` | who has crossed | `cross` burns tokens, locked or not |
| `zrml/liquidity-mining`, `zrml/rikiddo` | incentives, a retired scoring rule | few calls, not used by the lifecycle |
| `runtime`, `node` | configuration and services | nothing |

How the parts interact. A market is created by an account and may need approval
by the advisory committee. A close cache says when it ends: by block number, or
by time frame (the timestamp in units of the block time). `on_initialize` of
`prediction-markets` closes what is due. Its creator or an authority can bring
the end forward, others can dispute that, the authority can reject it. After the
close the oracle (later anyone) reports, which puts the market into the report
cache. Without a dispute `on_initialize` resolves it at the end of the dispute
duration. A dispute hands it to the market's mechanism, which puts a resolution
date into the dispute cache through `DisputeResolutionApi` and may move it:
`authorized` once, `simple-disputes` with every suggestion, the court with every
appeal. A failed court case can be handed to a global dispute. At resolution the
bonds go to whom the history says.

What is hard to get right here: the caches have to follow every change of a
period or of a mechanism's date; closings and resolutions of one block stand or
fall together, since one `Err` rolls back all of them; a block whose hooks were
rolled back is never processed again, while time frames are; `on_initialize`
runs with the timestamp of the previous block, and a time frame may hold two;
the bond macros write the market while an outer closure holds an older copy of
it; and the dispute pallets are asked for dates after their own state has
changed. `PROJECT.json` lists these hazards with their lines and the properties
that cover them.

## Modules

| Module | What it is |
|---|---|
| `Market` | the market record, the bonds and their macros; the context in which a handler works |
| `DisputeMechanisms` | the state the dispute pallets keep for one market, and the `DisputeApi` and `GlobalDisputesPalletApi` calls made by `prediction-markets` |
| `PredictionMarkets` | the variables, the caches, the handlers of one market, the dispatchables, `on_initialize` |
| `MarketLifecycle` | adds the calls of the dispute pallets; `Init`, `Next`, `Spec`, `FairSpec`, and all properties |
| `AbstractMarkets` | what a market promises its participants: stages, reports and outcomes, nothing else |
| `MCLifecycle` | the inputs of the model-checking runs |
| `GlobalDisputes` | the pallet `global-disputes`: its calls, its interface, the currency it locks and pays, and its properties |
| `OutcomeVote` | the abstract vote that it implements |
| `MCGlobalDisputes` | the inputs of its model-checking runs |
| `MarketProofs` | lemmas on the handlers of one market |
| `ScheduleProofs` | lemmas on caches and time frames; what a call on one market has to establish |
| `CreationProofs`, `EarlyCloseProofs`, `DisputeProofs` | one lemma per call: it preserves the invariant |
| `LifecycleProofs` | the same for a new block; the inductive invariant; the theorems |
| `GlobalDisputesProofs` | induction over a loop; the cached winner, the rewarded owners, the locks |
| `DisputeFundsProofs` | the reward accounts, the balances, the types of `GlobalDisputes` |

**State.** Storage items keep their names. `Markets` and `MarketCounter` are
those of `market-commons`. A cache maps a market and a slot to the number of
occurrences of the market in the slot, because the order within a slot does not
matter (handlers of different markets touch disjoint state) and a repeated entry
does. `Reserves` says where the money of each bond is: `"Unbonded"`, `"Held"`,
`"Slashed"`, or with an account. `Mechanisms` holds what the four dispute
pallets keep per market. `rolled_back`, `shared_frames` and `logic_errors` are
history: the blocks whose `on_initialize` was rolled back, the time frames in
which two blocks in a row had their timestamps, and the `debug_assert!(false)`
that were reached.

**Contexts.** A handler of the code reads and writes one market, its reserves
and its dispute state, and may fail half-way. The model passes a record with
these three, a flag `ok` and the warnings through the same steps as the code. A
dispatchable is transactional, so its action is `Commit` of the last context
with `ok` as a guard. The lost update of `close_market` is kept: the bonds it
unreserves are released in `reserve` while the outer copy of the market, with
the old flags, is what is stored.

**Blocks.** `NewBlock` is one block's hooks and its timestamp inherent:
`on_initialize` of `prediction-markets` with the previous block's timestamp,
then the new timestamp, and the court's request block. Of the timestamp
pallet-timestamp only demands that it is `MinimumPeriod` after the previous one,
half a block time in both runtimes; on the parachain no consensus hook ties it
to a slot (`OnTimestampSet` is `()`), and collators take the system time. So a
time frame may hold no block, one, or two. Calls interleave between blocks in
any order.

**Global disputes.** `GlobalDisputes` stands on its own interface: the lifecycle
keeps of a global dispute only that it exists and who wins it
(`DisputeMechanisms`), because a market in a global dispute is not resolved (run
`GlobalDisputeStuck`) and nothing the pallet does would be seen.
`GlobalDisputesInfo`, `Outcomes` and `Locks` are the storage items;
`Locks[a][m]` is `None` where the code's vector has no entry. `free`, `locked`
and `pot` are the balance and the lock of each account and the reward account of
each market. `decided` (the winner and its owners when the market was resolved)
and `taken` are history. `taken` is what left an account although it may have
been locked: transaction fees, which a lock on transfers does not stop; slashes
of jurors and delegators by the court (`slash`), whose lock may lie on the same
tokens; and the burn of a styx crossing (`cross`). `Currency::slash` heeds no
lock. Not modelled is root's power to set balances. A drain of at most
`RemoveKeysLimit` outcomes removes any of them, since the order is that of
hashes. The environment: a market is resolved once and not after its dispute was
destroyed (`Resolves`); `destroy_global_dispute` has no caller in the repository
and may be called at any time; nobody else pays into a reward account. A fee
shared among `MaxOwners` owners is at least an existential deposit each, as in
both runtimes (200 tokens against ten times 0.005), so that no payment from a
reward account is refused; what rounding leaves there is removed when it is less
than an existential deposit (`Reaped`).

**Abstracted data.** Outcomes, accounts and amounts are model values: every bond
has one fixed amount, so only its place matters (global disputes have amounts).
The verdict of a court, the winner of a global dispute and whether the jurors'
stake suffices are choices. Weights, events, and the assets of a market are left
out.

## Runs

The first four runs use `MCLifecycle`. Blocks run to `Horizon`; `EndOfRun`
stutters there, so deadlock is checked everywhere before.

| Run | Instance | Shows |
|---|---|---|
| `Disputes` | one market, all mechanisms | reports and dispute dates are in their caches exactly when and where they should be; bonds are held exactly while at stake and paid to whom the history says; the market implements `AbstractMarkets` |
| `EarlyClose` | block and time periods, skipped and shared time frames, advised markets | the close cache follows each edit, early close, dispute, rejection and second schedule; only a shared frame makes a closing missed; no bond is paid twice; no id is reused |
| `Rollback` | two markets with courts, block and time periods, fair blocks | only a market in a global dispute makes `on_initialize` fail; open markets close, reports and dated disputes are decided, unless exactly their own block failed or their frame was shared |
| `Progress` | one market, all mechanisms, skipped time frames, fair blocks | open markets close, disputes with a date are decided |
| `Votes` | one dispute, three outcomes, two accounts | the cached winner leads; the owners of the winner are rewarded; refunds are covered; the vote implements `OutcomeVote` |
| `Locks` | three disputes, one account | a lock is the largest remaining vote and is backed by the balance, but for what fees, slashes and a crossing took |

Six more runs each show one place where the code does something other than
what its comments or documents say (`findings` in `PROJECT.json` quote them):

| Run | The code's own words | What happens |
|---|---|---|
| `SharedFrame` | markets are closed automatically when they end | not when a call in the second block of a time frame sets the end in the next frame, which `on_initialize` of that block has processed |
| `CloseBondTwice` | settling a settled bond is a logic error | `reject_early_close` does it after dispute and second schedule |
| `ExpiredPeriod` | a market is never returned to a period that is over | it is, when time frames were skipped around the old end |
| `GlobalDisputeStale` | the global dispute controls the resolution | the court's date stays in the cache, since it is asked for after the court is removed |
| `GlobalDisputeStuck` | the vote determines on what the market finally resolves | `Court::exchange` needs the removed court, so the market never resolves |
| `UnopenedCourt` | without a court a global dispute is allowed | `has_failed` returns an error |

**Bounds.** Horizons of 6 to 12 blocks with periods and durations of one to
three blocks are enough for a market to be created, closed early, disputed,
rejected and scheduled again, or closed, reported, disputed and appealed to the
limit: the lengths are chosen so that every deadline can be met, missed by one,
and passed. One market suffices where handlers do not touch other markets, which
is the case everywhere except in `on_initialize`'s rollback and in the id
counter; `Rollback` has two, which all end, and are reported, disputed and
appealed, well before its horizon. Each exception that its properties allow is
reached: open markets of both kinds of period, reports and disputes are passed
over; in `EarlyClose` that happens to a market that returns from a forgone early
close. A step of the clock by one (`TimeSteps`) with frames of two makes shared
frames, a step of three skips frames. In `Votes` the initial items contain ties
and repeated owners up to and over `MaxOwners`, a fee that two owners cannot
share evenly, and a `RemoveKeysLimit` of one, so that purges and refunds take
several calls; sums tie with fees and votes. In `Locks` an account meets more
disputes than `MaxGlobalDisputeVotes`; the disputes are symmetric. Accounts
share nothing but the outcomes they vote on, so one account with three disputes
and two accounts with one dispute cover what accounts and disputes do to each
other. Every action and every disjunct fires in some passing run.

**Fairness.** `FairSpec` assumes weak fairness of the block number only: the
chain produces blocks. No caller is assumed to act.

## Proofs

Assumptions: those of the modules (`MarketAssumption`, `MechanismAssumption`,
`MechanismNoneAssumption`, `PredictionMarketsAssumption`), which say that ids
and limits are natural numbers, that the periods the pallets forbid to be zero
are not, and that the early-close periods of time markets are at least one block
long; and for global disputes `GlobalDisputesAssumption` and `NoneAssumption`:
amounts, periods and limits are natural numbers, no limit is zero, the possible
outcomes are finitely many, and the fee covers the shares as said above. TLC
evaluates them in every run.

Proved, for every number of markets, accounts and outcomes and every choice of
the periods, limits and inputs:

* `TypeCorrectness`: `Spec => []TypeOK`
* `CloseScheduling`: `Spec => []CloseScheduled`
* `NoMissedClose`: `Spec => []CloseNotMissed`
* `EarlyCloseConsistency`: `Spec => []EarlyCloseConsistent`
* `TheWinnerLeads`, `TheWinnersAreRewarded`, `LocksAreLargestVotes`,
  `RefundsAreCovered`, `LocksAreCovered`, `DisputeTypes`: the five safety
  properties and the types of `GlobalDisputes`

The first four are corollaries of `Invariance`, `Spec => []ScheduleInv`.
`ScheduleInv` joins the four with what they need from each other: reports and
mechanisms are present where the code unwraps them (`AllUnwrappable`), ids from
the counter on are unused (`UnusedIds`, for `create_market`), and the first pass
of `on_initialize` finds nothing to do, while the last processed frame is at
most one ahead of the clock, and that only in a shared frame (`ClockInv`, for a
new period to lie ahead). `CloseScheduled` is what makes `clear_auto_close` hit
its entry; `CloseNotMissed` needs it, because a market closes only in the slots
it is listed in; both need `EarlyCloseConsistent`, since a dispute or rejection
returns to the old period, which lies ahead only because it ends after the new
one. `CloseNotMissed` allows two exceptions, since the code has them: the block
of the end was rolled back, or the frame before the end held two blocks
(`Forgone`); an early close that was forgone excuses the old period, too, to
which the market may return when that is over.

The argument: `MarketProofs` shows that settling bonds changes nothing else of a
market, that closing makes it closed or removes it, and that a resolution which
succeeds starts from a reported or disputed market; `ProcessedFollows` says what
the managers of a block may make of a market. `CallStep` of `ScheduleProofs`
states once what a call on one market has to establish; one lemma per
dispatchable provides it. `NewBlockStep` of `LifecycleProofs` treats the
committed and the rolled-back block.

Global disputes have four invariants, each proved with the ones before.
`DisputeInv` says of every dispute (`Sound`) that the cache is right about the
stored outcomes while the winner is stored (`Caches`), that owners are between
one and `MaxOwners`, and that a finished dispute has the decided owners either
in its outcome or, after the first purge, in `GlobalDisputesInfo`; the last is
what makes `WinnersRewarded` inductive over several purges. `UpdateWinner` is
the heart: a cache of one outcome stays right as long as sums only grow.
`LockInv` says that a lock is the largest vote; a vote adds to the earlier one
on the same market, so the entry it replaces cannot have been larger than the
new one. `PotInv` adds to `PotCoversRefunds` that a market without a dispute has
an empty reward account, and `BalanceInv` is `LocksCovered` with the types of
the balances; what fees, slashes and crossings take is on both sides of it
(`BalanceOfTake`).

The loop of `start_global_dispute` is a recursive function over the initial
items, so its result needs an induction. `UpTo` provides it as a statement about
sets: a set that contains 0 and, up to n, the successors of its elements
contains 0 to n. It follows from the well-foundedness of the natural numbers
(`LeastElement`). With it `RoundsExist` shows that the function the recursion
describes exists, and `AfterTheLoop` that every round keeps `RoundInv`.

Only model-checked: the report and dispute schedules, the bonds, the refinements
of `AbstractMarkets` and `OutcomeVote`, and the liveness properties (fairness is
out of the prover's reach).

## Not modelled yet, and the plan

1. `CourtPool` and `CourtVoting`: joining, delegating, preparing to exit, draws
   with locks, secret votes, denunciation, reveal, reassignment of stakes; the
   sum of locks against the sum of draws. Composition with `MarketLifecycle`
   through the verdict and the stake.
2. `CompleteSets` with `redeem_shares`, and `Parimutuel`: the market account
   covers all shares.
3. `Orderbook`: reserved balances against the remaining parts of all orders.
4. `LiquidityTree` of `neo-swaps`: lazy fees and reused nodes against a flat
   account of every owner, as a refinement.
5. Proofs of the report and dispute schedules and of the bond invariants, and
   of the refinements of `AbstractMarkets` and `OutcomeVote`.

Left out for good: fixed-point scoring rules (`neo-swaps` prices, `swaps`,
`rikiddo`, `primitives/src/math`), which neither TLC nor the provers reach;
`runtime`, `node`, weights, benchmarks and migrations, which have no state of
their own or run once; `liquidity-mining`, which nothing modelled depends on,
and `set_burn_amount` of `styx`.
