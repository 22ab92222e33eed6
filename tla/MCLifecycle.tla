---------------------------- MODULE MCLifecycle ----------------------------
(* Instances of MarketLifecycle for TLC. *)
EXTENDS MarketLifecycle, TLC

CONSTANTS alice, bob, carol, yes, no

\* Accounts and outcomes are only compared for equality.
Symmetry == Permutations(Accounts) \cup Permutations(Outcomes)
AccountSymmetry == Permutations(Accounts)

BlockPeriod(ends) == [kind: {"Block"}, end: ends]
TimePeriod(ends) == [kind: {"Timestamp"}, end: ends]

Deadline(g, o, d) ==
  [grace_period |-> g, oracle_duration |-> o, dispute_duration |-> d]

MC_OneMarket == {0}
MC_TwoMarkets == {0, 1}

\* A market that closes in block 2, disputed for two blocks.
MC_ShortPeriod == BlockPeriod({2})
MC_Deadlines == {Deadline(0, 1, 2), Deadline(0, 1, 0)}

\* One that can end by the clock as well.
MC_ShortPeriods == BlockPeriod({2}) \cup TimePeriod({16})

\* Periods of both kinds; a grace period of one block.
MC_BothPeriods == BlockPeriod({5}) \cup TimePeriod({15})
MC_GraceDeadlines == {Deadline(1, 1, 1), Deadline(0, 1, 0)}

MC_AllMechanisms == MarketDisputeMechanism \cup {None}

\* Two markets that can be due in the same block; one can end by the clock.
MC_RollbackPeriods == BlockPeriod({2, 8}) \cup TimePeriod({10})
MC_RollbackDeadlines == {Deadline(0, 1, 2), Deadline(0, 1, 0)}

\* A market that ends by the clock in the middle of a run.
MC_TimePeriod == TimePeriod({6})

MC_AuthorizedOrTrusted == {"Authorized", None}
=============================================================================
