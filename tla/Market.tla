------------------------------- MODULE Market -------------------------------
(***************************************************************************)
(* The data of a prediction market (primitives/src/market.rs) and the      *)
(* operations on its bonds (the impl_unreserve_bond, impl_slash_bond,      *)
(* impl_repatriate_bond and impl_is_bond_pending macros of                 *)
(* zrml/prediction-markets/src/lib.rs).                                    *)
(*                                                                         *)
(* Amounts are abstracted to where the bonded money is: a bond is one      *)
(* indivisible deposit that sits in the named reserve of the account that  *)
(* placed it (Held), has been credited to an account, or has been slashed. *)
(***************************************************************************)
EXTENDS Integers, Sequences, FiniteSets

CONSTANTS
  MarketIds,          \* the ids the market counter can hand out, 0 .. n
  Accounts,
  Outcomes,           \* the outcome reports that match the market's type
  None,               \* Rust's None
  Horizon,            \* bound: the last block number
  MaxMoment,          \* bound: the last timestamp
  MillisecsPerBlock   \* length of a time frame

Blocks == 0 .. Horizon

Moments == 0 .. MaxMoment

\* A time frame is the timestamp in units of the block time.
calculate_time_frame_of_moment(t) == t \div MillisecsPerBlock

TimeFrames == 0 .. calculate_time_frame_of_moment(MaxMoment) + 1

-----------------------------------------------------------------------------
(* Types *)

MarketStatus ==
  {"Proposed", "Active", "Closed", "Reported", "Disputed", "Resolved"}

MarketCreation == {"Permissionless", "Advised"}

MarketDisputeMechanism == {"Authorized", "Court", "SimpleDisputes"}

\* Only the end of the half-open range matters to the lifecycle.
MarketPeriod == [kind: {"Block"}, end: Blocks]
                  \cup [kind: {"Timestamp"}, end: Moments]

Deadlines == [grace_period: Nat, oracle_duration: Nat, dispute_duration: Nat]

Report == [at: Blocks, by: Accounts, outcome: Outcomes]

EarlyCloseState ==
  {"ScheduledAsMarketCreator", "ScheduledAsOther", "Disputed", "Rejected"}

EarlyClose ==
  [old: MarketPeriod, new: MarketPeriod, state: EarlyCloseState]

Bond == [who: Accounts, is_settled: BOOLEAN]

BondName ==
  {"creation", "oracle", "outsider", "dispute", "close_request",
   "close_dispute"}

\* The bonds whose macros are only used by the early-close handlers.
CloseBondName == {"close_request", "close_dispute"}

MarketBonds == [BondName -> Bond \cup {None}]

MarketRecord ==
  [creator: Accounts, creation: MarketCreation, oracle: Accounts,
   period: MarketPeriod, deadlines: Deadlines, status: MarketStatus,
   report: Report \cup {None}, resolved_outcome: Outcomes \cup {None},
   dispute_mechanism: MarketDisputeMechanism \cup {None},
   bonds: MarketBonds, early_close: EarlyClose \cup {None}]

(* Where the money of a bond is. "Unbonded": never deposited.  "Held": in   *)
(* the named reserve of bond.who.  An account: credited to that account.    *)
(* "Slashed": left as an imbalance for the dispute mechanism or the         *)
(* treasury.  "Split": partly slashed to the treasury, the rest returned.   *)
Location == {"Unbonded", "Held", "Slashed", "Split"} \cup Accounts

Reserve == [BondName -> Location]

ASSUME MarketAssumption ==
  /\ MarketIds \subseteq Nat
  /\ Horizon \in Nat
  /\ MaxMoment \in Nat
  /\ MillisecsPerBlock \in Nat \ {0}
  /\ None \notin Bond
  /\ None \notin Report
  /\ None \notin MarketDisputeMechanism
  /\ None \notin Outcomes
  /\ None \notin EarlyClose
  /\ None \notin MarketRecord
  /\ None \notin Nat
  /\ {"Unbonded", "Held", "Slashed", "Split"} \cap Accounts = {}

-----------------------------------------------------------------------------
(***************************************************************************)
(* A handler works on the context of one market: the stored market, the    *)
(* location of its bonds, the state the dispute pallets keep for it, ok    *)
(* (no call has returned Err so far) and warned (the debug_assert!(false)  *)
(* reached on the way).                                                    *)
(***************************************************************************)
Context(mk, reserve, dm) ==
  [mk |-> mk, reserve |-> reserve, dm |-> dm, ok |-> TRUE, warned |-> {}]

Fail(c) == [c EXCEPT !.ok = FALSE]


settle_bond_Repeats(c, b, loc) ==
  IF c.mk.bonds[b] = None THEN Fail(c)
  ELSE [c EXCEPT !.mk.bonds[b].is_settled = TRUE, !.reserve[b] = loc]

\* The common part of the settlement macros: the money of bond b goes to loc.
settle_bond(c, b, loc) ==
  IF c.mk.bonds[b] = None
  THEN Fail(c)                                             \* MissingBond
  ELSE IF c.mk.bonds[b].is_settled
  THEN [c EXCEPT !.warned = @ \cup {"settled_twice"}]
  ELSE [c EXCEPT !.mk.bonds[b].is_settled = TRUE, !.reserve[b] = loc]

unreserve_bond(c, b) == settle_bond(c, b, c.mk.bonds[b].who)

slash_bond(c, b) == settle_bond(c, b, "Slashed")

slash_percentage_of_bond(c, b) == settle_bond(c, b, "Split")

\* Mutant: the deposit goes back to whoever placed it.
repatriate_bond_ToOwner(c, b, beneficiary) == unreserve_bond(c, b)

repatriate_bond(c, b, beneficiary) == settle_bond(c, b, beneficiary)

is_bond_pending(mk, b) == mk.bonds[b] # None /\ ~mk.bonds[b].is_settled

\* Reserving bond b from who: AssetManager::reserve_named and Bond::new.
reserve_bond(c, b, who) ==
  [c EXCEPT !.mk.bonds[b] = [who |-> who, is_settled |-> FALSE],
            !.reserve[b] = "Held"]

LogicError == {"settled_twice", "expired"}

NoReserve == [b \in BondName |-> "Unbonded"]

NoBonds == [b \in BondName |-> None]
=============================================================================
